---- MODULE Spec2Model ----
(***************************************************************************)
(* Transaction-receipt processing worker (snapshotter-periphery-           *)
(* txprocessor): the queue consumer loop of TxProcessor, its per-hash      *)
(* workers with retry and staleness purge, the ReceiptDumper and           *)
(* EventFilter preloader hooks and the shared RedisPool handle.            *)
(*                                                                         *)
(* Strings whose characters the code inspects (hex numbers, addresses,     *)
(* topics) are sequences of one-character strings.  asyncio runs one task  *)
(* at a time and switches tasks only at an await, so every action below    *)
(* is the code between two awaits of one task.                             *)
(***************************************************************************)
EXTENDS Integers, Sequences, FiniteSets, TLC

-----------------------------------------------------------------------------
(* Bounds of the model.                                                    *)

\* Spec: tasks the supervisor spawns, hashes the producer pushes, and KV
\* connection errors brpop raises, in one run
MaxTasks == 2
MaxPush == 2
MaxConnErr == 1
\* SpecRetry: deliveries (tasks spawned) and producer pushes in one run
MaxDeliveries == 4
MaxRetryPush == 2
\* SpecEF: workers in the hook phase at once
MaxEFTasks == 2
\* SpecDet: answers that differ from a pool's, and calls per evaluation
MaxDeviations == 2
MaxCalls == 2
\* SpecFn: length of the strings drawn, and applications of a function to one
MaxTopicLen == 3
MaxApply == 2
\* SpecStop: tasks spawned, hashes pushed and connection errors before the
\* service shuts down
MaxStopTasks == 1
MaxStopPush == 1
MaxStopConnErr == 1
\* SpecStart: the same for the service once constructed, and the lengths of
\* the hook list and of the filter list of the configuration
MaxStartTasks == 1
MaxStartPush == 1
MaxStartConnErr == 1
MaxPreloaders == 2
MaxFilters == 2
\* SpecRpc: config.retry of the helper, and calls made on it
MaxRetry == 3
MaxRpcCalls == 2

-----------------------------------------------------------------------------
(* Program constants.                                                      *)

\* tx_processor.py:86  "if self.retry_counts[tx_hash] < 2"
MAX_RETRIES == 2
\* tx_processor.py:69  "current_block_number - receipt_block_number > 100"
STALE_BLOCKS == 100
\* event_filter.py:189
SCORE_BLOCK_MULTIPLIER == 1000000
\* event_filter.py:70   retry_count = 3
DETECT_RETRY_COUNT == 3
\* uniswapv3_detector.py:231  required_matches = 6
REQUIRED_MATCHES == 6
\* rpc.py:36  await asyncio.sleep(1)
RETRY_DELAY == 1

-----------------------------------------------------------------------------
(* Strings and hexadecimal numbers.                                        *)

\* Python None where a string or a list is expected
NONE == <<"None">>

HexDigits == <<"0","1","2","3","4","5","6","7","8","9","a","b","c","d","e","f">>

IsHexDigit(c) == \E i \in 1..16 : HexDigits[i] = c

HexVal(c) == (CHOOSE i \in 1..16 : HexDigits[i] = c) - 1

LowerChar(c) ==
    CASE c = "A" -> "a" [] c = "B" -> "b" [] c = "C" -> "c"
      [] c = "D" -> "d" [] c = "E" -> "e" [] c = "F" -> "f"
      [] c = "X" -> "x"
      [] OTHER -> c

UpperChar(c) ==
    CASE c = "a" -> "A" [] c = "b" -> "B" [] c = "c" -> "C"
      [] c = "d" -> "D" [] c = "e" -> "E" [] c = "f" -> "F"
      [] OTHER -> c

\* str.lower()
Lower(s) == [i \in 1..Len(s) |-> LowerChar(s[i])]

\* the digits of a hex literal once an optional 0x / 0X prefix is removed
HexBody(s) ==
    IF Len(s) >= 2 /\ s[1] = "0" /\ LowerChar(s[2]) = "x"
    THEN SubSeq(s, 3, Len(s)) ELSE s

RECURSIVE HexNum(_)
HexNum(d) ==
    IF Len(d) = 0 THEN 0
    ELSE 16 * HexNum(SubSeq(d, 1, Len(d) - 1)) + HexVal(d[Len(d)])

\* int(s, 16) succeeds: s is a string of hex digits with an optional prefix
IsHex(s) ==
    /\ s # NONE
    /\ Len(HexBody(s)) > 0
    /\ \A i \in 1..Len(HexBody(s)) : IsHexDigit(LowerChar(HexBody(s)[i]))

\* int(s, 16)
ParseHex(s) == HexNum(Lower(HexBody(s)))

\* json.dumps(x): a string that determines x
JsonDumps(x) == <<"json", x>>

RECURSIVE LStrip0x(_)
\* str.lstrip('0x'): drops every leading character that is '0' or 'x'
LStrip0x(s) ==
    IF Len(s) > 0 /\ s[1] \in {"0", "x"} THEN LStrip0x(Tail(s)) ELSE s

RECURSIVE Join(_)
\* the Python string whose characters (or pieces) are s[1], s[2], ...
Join(s) == IF Len(s) = 0 THEN "" ELSE s[1] \o Join(Tail(s))

-----------------------------------------------------------------------------
(* Configuration and chain data the runs draw from.                        *)

\* settings.namespace
NAMESPACE == "ns"

\* transaction hashes the producer may push
Hashes == {"0xabc", "0xdef"}

NoHash == "-"

\* topics of the events the ABI defines, as event_filter.py:133 writes them
T_SWAP == <<"0","x","c","4">>
T_MINT == <<"0","x","0","a">>

\* entries of EventFilter.processed_filters as _prepare_filters builds them
F_SWAPS ==
    [filter_name |-> "swaps",
     events_by_topic |-> (T_SWAP :> "Swap"),
     redis_key_pattern |-> <<"swaps:", "{namespace}", ":", "{address}">>]

F_EVENTS ==
    [filter_name |-> "events",
     events_by_topic |-> (T_SWAP :> "Swap") @@ (T_MINT :> "Mint"),
     redis_key_pattern |-> <<"events:", "{namespace}", ":", "{address}">>]

ADDR_POOL == <<"0","x","A","b">>
ADDR_DEAD == <<"0","x","d","e">>

\* a log entry; decodable: get_event_data succeeds on it
Log(addr, topics, idx, decodable) ==
    [address |-> addr, topics |-> topics, logIndex |-> idx, data |-> "0x",
     decodable |-> decodable]

Receipt(blk, txi, logs) ==
    [blockNumber |-> blk, transactionIndex |-> txi, logs |-> logs]

\* block 42, one Swap log of the pool at log index 3
R_SWAP ==
    Receipt(<<"0","x","2","a">>, <<"0","x","0">>,
            << Log(ADDR_POOL, <<T_SWAP>>, <<"0","x","3">>, TRUE) >>)

\* a receipt without blockNumber
R_NOBLOCK == Receipt(NONE, <<"0","x","0">>, <<>>)

\* block 42: a Swap of the pool, a Swap of another contract, a Swap of the pool
R_XYX ==
    Receipt(<<"0","x","2","a">>, <<"0","x","1">>,
            << Log(ADDR_POOL, <<T_SWAP>>, <<"0","x","0">>, TRUE),
               Log(ADDR_DEAD, <<T_SWAP>>, <<"0","x","1">>, TRUE),
               Log(ADDR_POOL, <<T_SWAP>>, <<"0","x","2">>, TRUE) >>)

\* block 43: a Swap with upper-case topic, a Swap the ABI cannot decode, a Mint
\* under the pool's lower-case spelling, a log of a malformed address, a log
\* without index
R_MIXED ==
    Receipt(<<"0","x","2","b">>, <<"0","x","0">>,
            << Log(ADDR_POOL, << <<"0","x","C","4">> >>, <<"0","x","0">>, TRUE),
               Log(ADDR_POOL, <<T_SWAP>>, <<"0","x","1">>, FALSE),
               Log(<<"0","x","a","b">>, <<T_MINT>>, <<"0","x","2">>, TRUE),
               Log(<<"0","x","z","z">>, <<T_SWAP>>, <<"0","x","3">>, TRUE),
               Log(ADDR_POOL, <<T_SWAP>>, NONE, TRUE) >>)

\* block 42, no log
R_EMPTY == Receipt(<<"0","x","2","a">>, <<"0","x","0">>, <<>>)

\* block 42, a receipt without the key "logs"
R_ABSENT == [blockNumber |-> <<"0","x","2","a">>, transactionIndex |-> <<"0","x","0">>]

\* a Swap of the pool in a receipt without blockNumber
R_NOBLK ==
    Receipt(NONE, <<"0","x","0">>,
            << Log(ADDR_POOL, <<T_SWAP>>, <<"0","x","3">>, TRUE) >>)

\* a Swap of the pool in a receipt without transactionIndex
R_NOTXI ==
    Receipt(<<"0","x","2","a">>, NONE,
            << Log(ADDR_POOL, <<T_SWAP>>, <<"0","x","3">>, TRUE) >>)

\* block 42: a log without address, one without topics, one without logIndex,
\* then a Swap of the pool
R_GAPS ==
    Receipt(<<"0","x","2","a">>, <<"0","x","0">>,
            << Log(NONE, <<T_SWAP>>, <<"0","x","0">>, TRUE),
               Log(ADDR_POOL, <<>>, <<"0","x","1">>, TRUE),
               Log(ADDR_POOL, <<T_SWAP>>, NONE, TRUE),
               Log(ADDR_POOL, <<T_SWAP>>, <<"0","x","3">>, TRUE) >>)

\* block 42: three Swaps of the pool, the second of which the ABI cannot decode
R_UNDEC ==
    Receipt(<<"0","x","2","a">>, <<"0","x","0">>,
            << Log(ADDR_POOL, <<T_SWAP>>, <<"0","x","0">>, TRUE),
               Log(ADDR_POOL, <<T_SWAP>>, <<"0","x","1">>, FALSE),
               Log(ADDR_POOL, <<T_SWAP>>, <<"0","x","2">>, TRUE) >>)

\* eth_getTransactionReceipt per hash in the runs of SpecEdge
EdgeChains ==
    { ("0xabc" :> R_EMPTY) @@ ("0xdef" :> R_ABSENT),
      ("0xabc" :> R_NOBLK) @@ ("0xdef" :> R_NOTXI),
      ("0xabc" :> R_GAPS) @@ ("0xdef" :> R_SWAP),
      ("0xabc" :> R_UNDEC) @@ ("0xdef" :> R_SWAP) }

\* eth_getTransactionReceipt per hash in the runs of Spec
CHAIN_MAIN == ("0xabc" :> R_SWAP) @@ ("0xdef" :> R_NOBLOCK)

\* eth_getTransactionReceipt per hash in the runs of SpecEF
EFChains ==
    { ("0xabc" :> R_XYX) @@ ("0xdef" :> R_MIXED),
      ("0xabc" :> R_MIXED) @@ ("0xdef" :> R_SWAP) }

\* eth_blockNumber answers: 100 and 101 blocks past R_SWAP's block
CurrentBlocks == {142, 143}

\* the pool detector's tables and the contracts it is asked about

\* lines 31-41: the selectors searched for, as "signature[2:].lower()"
REQUIRED_FUNCTION_SIGNATURES ==
    << "ddca3f43", "3850c7bd", "c45a0155", "0dfe1681", "d21220a7",
       "1a686502", "70cf754a", "128acb08", "a138ed29" >>

\* line 123
VALID_FEE_TIERS == {100, 500, 3000, 10000}

\* lines 252-257
expected_tick_spacing == (100 :> 1) @@ (500 :> 10) @@ (3000 :> 60) @@ (10000 :> 200)

\* line 184, and a token that is not WETH
WETH == "0xC02aaA39b223FE8D0A0e5C4F27eAD9083C756Cc2"
DAI == "0x6B175474E89094C44Da98b954EedeAC495271d0F"

\* a call that raises instead of answering
RAISES == <<"raise">>

\* bytecode as the sequence of its 4-byte words, in lower-case hex: no code,
\* a pool's code, code with 6 and with 5 of the selectors
CODE_NONE == <<>>
CODE_POOL == REQUIRED_FUNCTION_SIGNATURES \o <<"60806040">>
CODE_SIX == SubSeq(REQUIRED_FUNCTION_SIGNATURES, 1, 6) \o <<"60806040">>
CODE_FIVE == SubSeq(REQUIRED_FUNCTION_SIGNATURES, 1, 5) \o <<"60806040">>

\* the pool and the store as the detector finds them when all is well: a
\* pool of WETH and DAI with fee 3000; kvFail holds the store commands that
\* raise
GoodScenario ==
    [address |-> ADDR_POOL, code1 |-> CODE_POOL, code2 |-> CODE_POOL,
     viewFail |-> 0, fee |-> 3000, tick_spacing |-> 60,
     token0 |-> WETH, token1 |-> DAI, ercRaises |-> {}, kvFail |-> {}]

\* the ways an answer can differ from GoodScenario: <<what, answer>>
Deviations ==
    { <<"address", <<"0","x","z","z">> >>,
      <<"code1", RAISES>>, <<"code1", CODE_NONE>>, <<"code1", CODE_FIVE>>,
      <<"code2", RAISES>>, <<"code2", CODE_NONE>>, <<"code2", CODE_FIVE>>,
      <<"code2", CODE_SIX>>,
      <<"viewFail", 1>>, <<"viewFail", 2>>, <<"viewFail", 3>>,
      <<"viewFail", 4>>, <<"viewFail", 5>>,
      <<"fee", 250>>, <<"fee", 500>>, <<"tick_spacing", 10>>,
      <<"token0", DAI>>, <<"token1", WETH>>,
      <<"ercRaises", "name">>, <<"ercRaises", "symbol">>,
      <<"ercRaises", "decimals">>,
      <<"kvFail", "get_check">>, <<"kvFail", "set_check">>,
      <<"kvFail", "get_meta">>, <<"kvFail", "set_meta">>,
      <<"kvFail", "get_erc">>, <<"kvFail", "set_erc">>,
      <<"kvFail", "get_erc_first">>, <<"kvFail", "get_erc_second">> }

Deviate(s, d) ==
    IF d[1] = "kvFail" THEN [s EXCEPT !.kvFail = @ \cup {d[2]}]
    ELSE IF d[1] = "ercRaises" THEN [s EXCEPT !.ercRaises = @ \cup {d[2]}]
    ELSE [s EXCEPT ![d[1]] = d[2]]

RECURSIVE Scenarios(_)
\* GoodScenario with at most n answers changed
Scenarios(n) ==
    IF n = 0 THEN {GoodScenario}
    ELSE LET less == Scenarios(n - 1) IN
         less \cup { Deviate(s, d) : s \in less, d \in Deviations }

-----------------------------------------------------------------------------
(* State.                                                                  *)

VARIABLES
    caps,           \* the bounds of the run: tasks, pushes, connErrs
    chain,          \* hash -> the receipt the node holds for it
    hooks,          \* TxProcessor.preloader_hooks: hook class names in order
    processed_filters,  \* EventFilter.processed_filters, in insertion order
    scen,           \* what the node and the store answer to the pool detector
    det,            \* evaluation -> the is_uniswap_v3_pool call it is in
    fn,             \* the inputs drawn for a function and the values it returned
    boot,           \* the configuration read at construction and what became of it
    req,            \* the call of RpcHelper._make_request in progress
    rpcClient,      \* the HTTP client of TxProcessor.rpc_helper: "open" or "closed"
    queue,          \* the list at queue_key; queue[1] is its left end
    retry_counts,   \* TxProcessor.retry_counts
    tasks,          \* task id -> the process_transaction task spawned for it
    spawned,        \* number of tasks created so far
    supPc,          \* position of the supervisor in start_consuming
    pool,           \* RedisPool._pool: 0 is None, else a handle
    poolLock,       \* RedisPool._lock: 0 free, -1 supervisor, else a task id
    handles,        \* handles constructed so far
    closed,         \* handles on which close() has run
    redis,          \* TxProcessor._redis
    dmRedis,        \* RedisDataManager._redis of the receipt dumper
    detRedis,       \* handle held by the pool detector; 0: no detector yet
    detected_pool_addresses,  \* EventFilter.detected_pool_addresses
    poolCache,      \* KV strings uniswap_v3_pool_check:<checksum address>
    htable,         \* KV hashes: key -> field -> value
    zsets,          \* KV sorted sets: key -> member -> score
    pushed,         \* hashes pushed by the producer so far
    pushLog,        \* history: the hashes the producer pushed, in order
    connErrs,       \* connection errors raised by brpop so far
    reinserts,      \* history: hash -> number of lpush re-insertions done
    failures,       \* history: hash -> number of worker failures handled
    errPath,        \* history: supervisor steps since the last connection error
    errQueue        \* history: the queue when that connection error was raised

vars ==
    << caps, chain, hooks, processed_filters, scen, det, fn, boot, req, rpcClient, queue, retry_counts, tasks,
       spawned, supPc, pool, poolLock,
       handles, closed, redis, dmRedis, detRedis, detected_pool_addresses,
       poolCache, htable, zsets, pushed, pushLog, connErrs, reinserts,
       failures, errPath, errQueue >>

kvVars == << poolCache, htable, zsets >>
prodVars == << pushed, pushLog >>
poolVars == << pool, poolLock, handles, closed >>
errVars == << errPath, errQueue >>
histVars == << reinserts, failures >>
\* what the runs of a component other than the service itself work on
unitVars == << fn, boot, req >>
\* what no step of the loop, of a worker or of a producer changes
cfgVars == << caps, chain, hooks, processed_filters, scen, rpcClient, unitVars >>

\* task slots: as many as the largest run spawns
TaskIds == 1..(IF MaxTasks > MaxDeliveries THEN MaxTasks ELSE MaxDeliveries)

\* a task slot: pc is the await the task is suspended at; tx_hash, hook, li,
\* fi, attempt, cmds, found, current_block_number (0: the probe did not fire)
\* are the locals of process_transaction and of the hook it is in; the other
\* fields are history kept while the task runs: invoked (hooks called),
\* raised (hooks that raised), cause (what raised into line 83), passed / rejected (the
\* (log, filter) pairs the gate let through / turned down), stored (how the
\* pipeline of the event filter ended), fate (how the task ended)
IdleTask ==
    [pc |-> "idle", tx_hash |-> NoHash, hook |-> 0, invoked |-> <<>>,
     current_block_number |-> 0, cause |-> "-", raised |-> {}, li |-> 0, fi |-> 0, attempt |-> 0,
     cmds |-> <<>>, found |-> 0, passed |-> {}, rejected |-> {}, stored |-> "-",
     fate |-> "-"]

\* a finished task keeps its hash and how process_transaction ended: "null"
\* (no receipt), "purged" (queue deleted), "hooks" (hook loop done), "requeued"
\* (re-inserted), "lost" (the lpush raised), "abandoned" (retries used up)
Finished(tk, fate) ==
    [IdleTask EXCEPT !.pc = "done", !.tx_hash = tk.tx_hash, !.fate = fate]

\* the evaluations compared: each has its own copy of the store
Evaluations == {1, 2}

\* an evaluation: pc is the await the call is suspended at; call counts the
\* calls made; cache is its copy of the store's strings; rpc and kv are the
\* node calls and store commands the current call has issued; verdict, vi,
\* ti, tokens, meta are locals (a value that may be None is <<>> for None
\* and <<x>> for x); hit, failed (the check that ended the
\* call), metaFrom and log (outcome of each call) are history
\* no function is applied in the runs of the service
IdleFn == [x |-> <<>>, log |-> <<>>, config |-> <<>>, pairs |-> <<>>, scores |-> <<>>]

\* the service as constructed: the configuration is no longer looked at
IdleBoot ==
    [pc |-> "constructed", preloaders |-> <<>>, filters |-> <<>>,
     instantiated |-> <<>>, prepared |-> <<>>, error |-> <<>>]

\* no call of the RPC facade of utils/rpc.py is in progress
IdleReq ==
    [pc |-> "idle", retry |-> 0, calls |-> 0, attempt |-> 0, posts |-> 0,
     delays |-> <<>>, answers |-> <<>>, result |-> <<>>]

IdleDet ==
    [pc |-> "idle", call |-> 0, cache |-> <<>>, rpc |-> <<>>, kv |-> <<>>,
     verdict |-> FALSE, vi |-> 0, ti |-> 0, tokens |-> <<>>, meta |-> <<>>,
     hit |-> FALSE, failed |-> "-", metaFrom |-> "-", log |-> <<>>]

InitCommon ==
    /\ det = [w \in Evaluations |-> IdleDet]
    /\ fn = IdleFn
    /\ boot = IdleBoot
    /\ req = IdleReq
    /\ rpcClient = "open"
    /\ queue = <<>>
    /\ retry_counts = [h \in Hashes |-> 0]
    /\ tasks = [t \in TaskIds |-> IdleTask]
    /\ spawned = 0
    /\ pool = 0 /\ poolLock = 0 /\ handles = 0 /\ closed = {}
    /\ redis = 0 /\ dmRedis = 0 /\ detRedis = 0
    /\ detected_pool_addresses = <<>>
    /\ poolCache = <<>>
    /\ htable = <<>>
    /\ zsets = <<>>
    /\ pushed = 0 /\ pushLog = <<>> /\ connErrs = 0
    /\ reinserts = [h \in Hashes |-> 0]
    /\ failures = [h \in Hashes |-> 0]
    /\ errPath = <<>> /\ errQueue = <<>>

Init ==
    /\ InitCommon
    /\ caps = [tasks |-> MaxTasks, pushes |-> MaxPush, connErrs |-> MaxConnErr]
    /\ chain = CHAIN_MAIN
    /\ hooks = <<"ReceiptDumper", "EventFilter">>
    /\ processed_filters = <<F_SWAPS>>
    /\ scen = GoodScenario
    /\ supPc = "init"

-----------------------------------------------------------------------------
(* The upstream producer.                                                  *)

\* the producer pushes at the right end, the end brpop takes from
Produce_Rpush(h) ==
    /\ pushed < caps.pushes
    /\ pushed' = pushed + 1
    /\ pushLog' = Append(pushLog, h)
    /\ queue' = Append(queue, h)
    /\ UNCHANGED << cfgVars, det, retry_counts, tasks, spawned, supPc, poolVars, redis,
                    dmRedis, detRedis, detected_pool_addresses, kvVars, connErrs,
                    histVars, errVars >>

\* lpush(queue_key, h) by a producer
Produce(h) ==
    /\ pushed < caps.pushes
    /\ pushed' = pushed + 1
    /\ pushLog' = Append(pushLog, h)
    /\ queue' = <<h>> \o queue
    /\ UNCHANGED << cfgVars, det, retry_counts, tasks, spawned, supPc, poolVars, redis,
                    dmRedis, detRedis, detected_pool_addresses, kvVars, connErrs,
                    histVars, errVars >>

-----------------------------------------------------------------------------
(* RedisPool (utils/redis/redis_conn.py).                                  *)

\* get_pool returns at once: the handle exists
PoolReady == pool # 0

\* get_pool may enter the lock and construct: no handle, lock free
PoolCanConstruct == pool = 0 /\ poolLock = 0

-----------------------------------------------------------------------------
(* The supervisor: TxProcessor.start_consuming and _init.                  *)

\* the steps of the reconnect path are recorded once a connection error began it
Step(path, name) == IF path = <<>> THEN path ELSE Append(path, name)

\* the loop over the hooks ends at the first hook without init()
InitHooks_StopsAtMissing(h) ==
    IF hooks # <<>> /\ hooks[1] = "ReceiptDumper" THEN h ELSE dmRedis

\* the first hook.init() calls of _init: only ReceiptDumper defines init, and
\* its data manager takes the shared handle
InitHooks(h) ==
    IF \E i \in 1..Len(hooks) : hooks[i] = "ReceiptDumper" THEN h ELSE dmRedis

SupCrash ==
    /\ supPc' = "crashed"

\* _init, "self._redis = await RedisPool.get_pool()", the handle exists
SupInitFast ==
    /\ supPc = "init"
    /\ PoolReady
    /\ redis' = pool
    /\ dmRedis' = InitHooks(pool)
    /\ supPc' = "init_rpc"
    /\ UNCHANGED << cfgVars, det, queue, retry_counts, tasks, spawned, poolVars,
                    detRedis, detected_pool_addresses, kvVars, prodVars, connErrs,
                    histVars, errVars >>

\* get_pool constructs whenever the lock is free, a handle existing or not
SupInitConstruct_NoCheck ==
    /\ supPc = "init"
    /\ poolLock = 0
    /\ poolLock' = -1
    /\ handles' = handles + 1
    /\ pool' = handles + 1
    /\ supPc' = "init_ping"
    /\ UNCHANGED << cfgVars, det, queue, retry_counts, tasks, spawned, closed, redis,
                    dmRedis, detRedis, detected_pool_addresses, kvVars, prodVars,
                    connErrs, histVars, errVars >>

\* get_pool under the lock: "cls._pool = await aioredis.from_url(...)"
SupInitConstruct ==
    /\ supPc = "init"
    /\ PoolCanConstruct
    /\ poolLock' = -1
    /\ handles' = handles + 1
    /\ pool' = handles + 1
    /\ supPc' = "init_ping"
    /\ UNCHANGED << cfgVars, det, queue, retry_counts, tasks, spawned, closed, redis,
                    dmRedis, detRedis, detected_pool_addresses, kvVars, prodVars,
                    connErrs, histVars, errVars >>

\* "await cls._pool.ping()" answers or raises; a raise leaves _init by line 54
SupInitPing ==
    /\ supPc = "init_ping"
    /\ poolLock' = 0
    /\ \/ /\ redis' = pool
          /\ dmRedis' = InitHooks(pool)
          /\ supPc' = "init_rpc"
       \/ /\ SupCrash
          /\ UNCHANGED << redis, dmRedis >>
    /\ UNCHANGED << cfgVars, det, queue, retry_counts, tasks, spawned, pool, handles,
                    closed, detRedis, detected_pool_addresses, kvVars, prodVars,
                    connErrs, histVars, errVars >>

\* "await self.rpc_helper.init()" returns or raises
SupInitRpc ==
    /\ supPc = "init_rpc"
    /\ \/ /\ supPc' = "brpop"
          /\ errPath' = Step(errPath, "init")
       \/ /\ SupCrash
          /\ UNCHANGED errPath
    /\ UNCHANGED << cfgVars, det, queue, retry_counts, tasks, spawned, poolVars, redis,
                    dmRedis, detRedis, detected_pool_addresses, kvVars, prodVars,
                    connErrs, histVars, errQueue >>

\* the task asyncio.create_task starts: it runs to its first await, the fetch
NewTask(h) == [IdleTask EXCEPT !.pc = "fetch", !.tx_hash = h]

\* task t is in flight: spawned and not yet returned
InFlight(t) == tasks[t].pc \notin {"idle", "done"}

\* the loop awaits the worker: the next pop waits until no worker is in flight
SupBrpopItem_AwaitsWorker ==
    /\ supPc = "brpop"
    /\ queue # <<>>
    /\ spawned < caps.tasks
    /\ \A t \in TaskIds : ~ InFlight(t)
    /\ queue' = SubSeq(queue, 1, Len(queue) - 1)
    /\ spawned' = spawned + 1
    /\ tasks' = [tasks EXCEPT ![spawned + 1] = NewTask(queue[Len(queue)])]
    /\ errPath' = <<>> /\ errQueue' = <<>>
    /\ UNCHANGED << cfgVars, det, retry_counts, supPc, poolVars, redis, dmRedis,
                    detRedis, detected_pool_addresses, kvVars, prodVars, connErrs,
                    histVars >>

\* brpop returns the right end of the list; the worker is spawned, not awaited
SupBrpopItem ==
    /\ supPc = "brpop"
    /\ queue # <<>>
    /\ spawned < caps.tasks
    /\ queue' = SubSeq(queue, 1, Len(queue) - 1)
    /\ spawned' = spawned + 1
    /\ tasks' = [tasks EXCEPT ![spawned + 1] = NewTask(queue[Len(queue)])]
    /\ errPath' = <<>> /\ errQueue' = <<>>
    /\ UNCHANGED << cfgVars, det, retry_counts, supPc, poolVars, redis, dmRedis,
                    detRedis, detected_pool_addresses, kvVars, prodVars, connErrs,
                    histVars >>

\* brpop raises ConnectionError / ConnectionRefusedError / TimeoutError
SupBrpopConnError ==
    /\ supPc = "brpop"
    /\ connErrs < caps.connErrs
    /\ connErrs' = connErrs + 1
    /\ supPc' = "close"
    /\ errPath' = <<"error">> /\ errQueue' = queue
    /\ UNCHANGED << cfgVars, det, queue, retry_counts, tasks, spawned, poolVars, redis,
                    dmRedis, detRedis, detected_pool_addresses, kvVars, prodVars,
                    histVars >>

\* brpop raises any other exception
SupBrpopOtherError ==
    /\ supPc = "brpop"
    /\ supPc' = "sleep2"
    /\ errPath' = <<>> /\ errQueue' = <<>>
    /\ UNCHANGED << cfgVars, det, queue, retry_counts, tasks, spawned, poolVars, redis,
                    dmRedis, detRedis, detected_pool_addresses, kvVars, prodVars,
                    connErrs, histVars >>

\* "await RedisPool.close()" in the handler of line 111; a raise of
\* "await cls._pool.close()" leaves the handler and start_consuming
SupClose ==
    /\ supPc = "close"
    /\ \/ /\ closed' = (IF pool # 0 THEN closed \cup {pool} ELSE closed)
          /\ pool' = 0
          /\ supPc' = "sleep5"
          /\ errPath' = Step(errPath, "close")
       \/ /\ pool # 0
          /\ SupCrash
          /\ UNCHANGED << pool, closed, errPath >>
    /\ UNCHANGED << cfgVars, det, queue, retry_counts, tasks, spawned, poolLock, handles,
                    redis, dmRedis, detRedis, detected_pool_addresses, kvVars,
                    prodVars, connErrs, histVars, errQueue >>

\* after the sleep the loop goes back to brpop without "await self._init()"
SupSleep5_SkipsInit ==
    /\ supPc = "sleep5"
    /\ supPc' = "brpop"
    /\ errPath' = Step(errPath, "sleep")
    /\ UNCHANGED << cfgVars, det, queue, retry_counts, tasks, spawned, poolVars, redis,
                    dmRedis, detRedis, detected_pool_addresses, kvVars, prodVars,
                    connErrs, histVars, errQueue >>

\* "await asyncio.sleep(5)", then "await self._init()"
SupSleep5 ==
    /\ supPc = "sleep5"
    /\ supPc' = "init"
    /\ errPath' = Step(errPath, "sleep")
    /\ UNCHANGED << cfgVars, det, queue, retry_counts, tasks, spawned, poolVars, redis,
                    dmRedis, detRedis, detected_pool_addresses, kvVars, prodVars,
                    connErrs, histVars, errQueue >>

\* "await asyncio.sleep(2)", then the loop calls brpop again
SupSleep2 ==
    /\ supPc = "sleep2"
    /\ supPc' = "brpop"
    /\ UNCHANGED << cfgVars, det, queue, retry_counts, tasks, spawned, poolVars, redis,
                    dmRedis, detRedis, detected_pool_addresses, kvVars, prodVars,
                    connErrs, histVars, errVars >>

Supervisor ==
    \/ SupInitFast \/ SupInitConstruct \/ SupInitPing \/ SupInitRpc
    \/ SupBrpopItem \/ SupBrpopConnError \/ SupBrpopOtherError
    \/ SupClose \/ SupSleep5 \/ SupSleep2

-----------------------------------------------------------------------------
(* The KV store's data commands.                                           *)

\* HSET key field value
HSet(ht, key, field, value) ==
    LET old == IF key \in DOMAIN ht THEN ht[key] ELSE <<>>
    IN  (key :> ((field :> value) @@ old)) @@ ht

\* ZADD key score member [score member ...]: a member keeps one score
ZAdd(zs, key, mapping) ==
    LET old == IF key \in DOMAIN zs THEN zs[key] ELSE <<>>
    IN  (key :> (mapping @@ old)) @@ zs

\* utils/redis/redis_keys.py, block_tx_htable_key
block_tx_htable_key(namespace, block_number) ==
    "block_tx_htable:" \o namespace \o ":" \o ToString(block_number)

-----------------------------------------------------------------------------
(* The worker: TxProcessor.process_transaction.                            *)

\* the cap compared with "<=": a third failure would re-insert as well
ShouldRetry_OffByOne(count) == count <= MAX_RETRIES

\* line 86: the hash is re-inserted while its count is below the cap
ShouldRetry(count) == count < MAX_RETRIES

\* the threshold compared with ">=": a lag of exactly 100 would purge too
IsStale_Inclusive(current_block_number, receipt_block_number) ==
    current_block_number - receipt_block_number >= STALE_BLOCKS

\* line 69: the receipt lags the chain head by more than the threshold
IsStale(current_block_number, receipt_block_number) ==
    current_block_number - receipt_block_number > STALE_BLOCKS

\* the count of a hash is dropped when the hash is given up
OnFailure_ForgetsAbandoned(t, cause) ==
    LET h == tasks[t].tx_hash IN
    /\ failures' = [failures EXCEPT ![h] = @ + 1]
    /\ IF ShouldRetry(retry_counts[h])
       THEN /\ retry_counts' = [retry_counts EXCEPT ![h] = @ + 1]
            /\ tasks' = [tasks EXCEPT ![t] = [@ EXCEPT !.pc = "lpush", !.cause = cause]]
       ELSE /\ retry_counts' = [retry_counts EXCEPT ![h] = 0]
            /\ tasks' = [tasks EXCEPT ![t] = Finished(@, "abandoned")]

\* the increment writes back a count read before another worker's increment:
\* with a worker of the same hash between its increment and its lpush, the
\* update is lost
OnFailure_LostUpdate(t, cause) ==
    LET h == tasks[t].tx_hash IN
    /\ failures' = [failures EXCEPT ![h] = @ + 1]
    /\ IF ShouldRetry(retry_counts[h])
       THEN /\ retry_counts' =
                  [retry_counts EXCEPT ![h] =
                      IF \E u \in TaskIds \ {t} :
                            tasks[u].pc = "lpush" /\ tasks[u].tx_hash = h
                      THEN @ ELSE @ + 1]
            /\ tasks' = [tasks EXCEPT ![t] = [@ EXCEPT !.pc = "lpush", !.cause = cause]]
       ELSE /\ UNCHANGED retry_counts
            /\ tasks' = [tasks EXCEPT ![t] = Finished(@, "abandoned")]

\* the handler of line 83, up to its await of lpush
OnFailure(t, cause) ==
    LET h == tasks[t].tx_hash IN
    /\ failures' = [failures EXCEPT ![h] = @ + 1]
    /\ IF ShouldRetry(retry_counts[h])
       THEN /\ retry_counts' = [retry_counts EXCEPT ![h] = @ + 1]
            /\ tasks' = [tasks EXCEPT ![t] = [@ EXCEPT !.pc = "lpush", !.cause = cause]]
       ELSE /\ UNCHANGED retry_counts
            /\ tasks' = [tasks EXCEPT ![t] = Finished(@, "abandoned")]

\* a null receipt counted like a failure of the hash
OnNoReceipt_Counted(t) ==
    /\ tasks' = [tasks EXCEPT ![t] = Finished(@, "null")]
    /\ retry_counts' = [retry_counts EXCEPT ![tasks[t].tx_hash] = @ + 1]
    /\ UNCHANGED histVars

\* lines 61, 81-82: no receipt; a warning is logged and the worker returns
OnNoReceipt(t) ==
    /\ tasks' = [tasks EXCEPT ![t] = Finished(@, "null")]
    /\ UNCHANGED << retry_counts, histVars >>

\* line 60 answers: the fetch raises, returns null, or returns the receipt;
\* with a receipt, line 65 draws the 10% staleness probe
WorkerFetch(t) ==
    /\ tasks[t].pc = "fetch"
    /\ \/ /\ OnFailure(t, "fetch")
          /\ UNCHANGED reinserts
       \/ OnNoReceipt(t)
       \/ /\ \E fires \in BOOLEAN :
                tasks' = [tasks EXCEPT ![t] =
                    IF fires THEN [@ EXCEPT !.pc = "blocknum"]
                    ELSE [@ EXCEPT !.pc = "hook", !.hook = 1]]
          /\ UNCHANGED << retry_counts, histVars >>
    /\ UNCHANGED << cfgVars, det, queue, spawned, supPc, poolVars, redis, dmRedis,
                    detRedis, detected_pool_addresses, kvVars, prodVars, connErrs,
                    errVars >>

\* line 66 answers; lines 68-69 parse the receipt's block and compare
WorkerBlockNumber(t) ==
    LET rc == chain[tasks[t].tx_hash] IN
    /\ tasks[t].pc = "blocknum"
    /\ \/ /\ OnFailure(t, "blocknum")
          /\ UNCHANGED reinserts
       \/ /\ ~ IsHex(rc.blockNumber)
          /\ OnFailure(t, "parse")
          /\ UNCHANGED reinserts
       \/ /\ IsHex(rc.blockNumber)
          /\ \E cur \in CurrentBlocks :
                tasks' = [tasks EXCEPT ![t] =
                    IF IsStale(cur, ParseHex(rc.blockNumber))
                    THEN [@ EXCEPT !.pc = "delete", !.current_block_number = cur]
                    ELSE [@ EXCEPT !.pc = "hook", !.hook = 1,
                                   !.current_block_number = cur]]
          /\ UNCHANGED << retry_counts, histVars >>
    /\ UNCHANGED << cfgVars, det, queue, spawned, supPc, poolVars, redis, dmRedis,
                    detRedis, detected_pool_addresses, kvVars, prodVars, connErrs,
                    errVars >>

\* line 72 answers: the queue key is deleted and the worker returns, or the
\* delete raises into the handler of line 83
WorkerDelete(t) ==
    /\ tasks[t].pc = "delete"
    /\ \/ /\ queue' = <<>>
          /\ tasks' = [tasks EXCEPT ![t] = Finished(@, "purged")]
          /\ UNCHANGED << retry_counts, reinserts, failures >>
       \/ /\ OnFailure(t, "delete")
          /\ UNCHANGED << queue, reinserts >>
    /\ UNCHANGED << cfgVars, det, spawned, supPc, poolVars, redis, dmRedis, detRedis,
                    detected_pool_addresses, kvVars, prodVars, connErrs, errVars >>

\* the hash is re-inserted at the right end, where brpop takes from
WorkerLpush_Rpush(t) ==
    LET h == tasks[t].tx_hash IN
    /\ tasks[t].pc = "lpush"
    /\ \/ /\ queue' = Append(queue, h)
          /\ reinserts' = [reinserts EXCEPT ![h] = @ + 1]
          /\ tasks' = [tasks EXCEPT ![t] = Finished(@, "requeued")]
       \/ /\ tasks' = [tasks EXCEPT ![t] = Finished(@, "lost")]
          /\ UNCHANGED << queue, reinserts >>
    /\ UNCHANGED << cfgVars, det, retry_counts, spawned, supPc, poolVars, redis, dmRedis,
                    detRedis, detected_pool_addresses, kvVars, prodVars, connErrs,
                    failures, errVars >>

\* line 88 answers: the hash is back at the left end, or lpush raised and the
\* task ends with the exception
WorkerLpush(t) ==
    LET h == tasks[t].tx_hash IN
    /\ tasks[t].pc = "lpush"
    /\ \/ /\ queue' = <<h>> \o queue
          /\ reinserts' = [reinserts EXCEPT ![h] = @ + 1]
          /\ tasks' = [tasks EXCEPT ![t] = Finished(@, "requeued")]
       \/ /\ tasks' = [tasks EXCEPT ![t] = Finished(@, "lost")]
          /\ UNCHANGED << queue, reinserts >>
    /\ UNCHANGED << cfgVars, det, retry_counts, spawned, supPc, poolVars, redis, dmRedis,
                    detRedis, detected_pool_addresses, kvVars, prodVars, connErrs,
                    failures, errVars >>

-----------------------------------------------------------------------------
(* The hook loop of lines 76-80 and the receipt dumper.                    *)

\* the hook returned: the loop goes on to the next hook
HookReturned(tk) ==
    [tk EXCEPT !.pc = "hook", !.hook = @ + 1, !.li = 0, !.fi = 0, !.attempt = 0,
               !.cmds = <<>>, !.found = 0]

\* a raising hook ends the loop
HookRaised_EndsLoop(tk) ==
    [HookReturned(tk) EXCEPT !.raised = @ \cup {tk.hook}, !.hook = Len(hooks) + 1]

\* a raising hook reaches the handler of line 83
HookRaised_Requeues(tk) ==
    [HookReturned(tk) EXCEPT !.raised = @ \cup {tk.hook}, !.pc = "lpush",
                             !.cause = "hook"]

\* the hook raised: line 80 logs the error and the loop goes on
HookRaised(tk) == [HookReturned(tk) EXCEPT !.raised = @ \cup {tk.hook}]

\* a delivery that ends well clears the count of its hash
HooksDone_ClearsCount(t) ==
    /\ tasks[t].pc = "hook"
    /\ tasks[t].hook > Len(hooks)
    /\ tasks' = [tasks EXCEPT ![t] = Finished(@, "hooks")]
    /\ retry_counts' = [retry_counts EXCEPT ![tasks[t].tx_hash] = 0]
    /\ UNCHANGED << cfgVars, det, queue, spawned, supPc, poolVars, redis,
                    dmRedis, detRedis, detected_pool_addresses, kvVars, prodVars,
                    connErrs, histVars, errVars >>

\* the loop is over: process_transaction returns
HooksDone(t) ==
    /\ tasks[t].pc = "hook"
    /\ tasks[t].hook > Len(hooks)
    /\ tasks' = [tasks EXCEPT ![t] = Finished(@, "hooks")]
    /\ UNCHANGED << cfgVars, det, queue, retry_counts, spawned, supPc, poolVars, redis,
                    dmRedis, detRedis, detected_pool_addresses, kvVars, prodVars,
                    connErrs, histVars, errVars >>

Invoke(tk) == [tk EXCEPT !.invoked = Append(@, hooks[tk.hook])]

\* ReceiptDumper.process_receipt up to the hset of add_receipt: an unparsable
\* blockNumber raises, a data manager without handle returns
DumperStart(t) ==
    LET rc == chain[tasks[t].tx_hash] IN
    /\ tasks[t].pc = "hook"
    /\ tasks[t].hook <= Len(hooks)
    /\ hooks[tasks[t].hook] = "ReceiptDumper"
    /\ tasks' = [tasks EXCEPT ![t] =
          IF ~ IsHex(rc.blockNumber) THEN HookRaised(Invoke(@))
          ELSE IF dmRedis = 0 THEN HookReturned(Invoke(@))
          ELSE [Invoke(@) EXCEPT !.pc = "hset"]]
    /\ UNCHANGED << cfgVars, det, queue, retry_counts, spawned, supPc, poolVars, redis,
                    dmRedis, detRedis, detected_pool_addresses, kvVars, prodVars,
                    connErrs, histVars, errVars >>

\* the receipt stored under the block's key with a constant field
add_receipt_OneField(ht, namespace, block_number, tx_hash, receipt) ==
    HSet(ht, block_tx_htable_key(namespace, block_number), "receipt", receipt)

\* RedisDataManager.add_receipt: the write the dumper issues
add_receipt(ht, namespace, block_number, tx_hash, receipt) ==
    HSet(ht, block_tx_htable_key(namespace, block_number), tx_hash, receipt)

\* the hset answers or raises
DumperHset(t) ==
    LET h  == tasks[t].tx_hash
        rc == chain[h] IN
    /\ tasks[t].pc = "hset"
    /\ \/ /\ htable' = add_receipt(htable, NAMESPACE, ParseHex(rc.blockNumber), h,
                                   JsonDumps(rc))
          /\ tasks' = [tasks EXCEPT ![t] = HookReturned(@)]
       \/ /\ tasks' = [tasks EXCEPT ![t] = HookRaised(@)]
          /\ UNCHANGED htable
    /\ UNCHANGED << cfgVars, det, queue, retry_counts, spawned, supPc, poolVars, redis,
                    dmRedis, detRedis, detected_pool_addresses, poolCache, zsets,
                    prodVars, connErrs, histVars, errVars >>

-----------------------------------------------------------------------------
(* The event filter: EventFilter.process_receipt and its address gate.     *)

\* Web3.to_checksum_address accepts a hex address of the full length
ValidAddress(a) == IsHex(a) /\ Len(a) = Len(ADDR_POOL)

\* Web3.to_checksum_address: one spelling per address, whatever the case given
ToChecksumAddress(a) ==
    "0x" \o Join([i \in 1..Len(HexBody(a)) |-> UpperChar(LowerChar(HexBody(a)[i]))])

\* uniswapv3_detector.py:146
PoolCheckKey(a) == "uniswap_v3_pool_check:" \o ToChecksumAddress(a)

\* the prefix is stripped before the string is lowered
LogTopicStandard_StripFirst(topic) == <<"0", "x">> \o Lower(LStrip0x(topic))

\* event_filter.py:207-208, the topic of a log as compared with events_by_topic
LogTopicStandard(topic) == <<"0", "x">> \o LStrip0x(Lower(topic))

\* event_filter.py:120-122, a configured topic as compared with the ABI's
ConfigTopicStandard(topic) ==
    LET normalized_topic == Lower(topic) IN
    IF Len(normalized_topic) >= 2 /\ SubSeq(normalized_topic, 1, 2) = <<"0", "x">>
    THEN normalized_topic
    ELSE <<"0", "x">> \o normalized_topic

\* event_filter.py:240, the topics as stored in the member
MemberTopic(topic) == <<"0", "x">> \o Lower(LStrip0x(topic))

\* str.format(namespace=..., address=...) on a key pattern
FormatKey(pattern, namespace, address) ==
    Join([i \in 1..Len(pattern) |->
            IF pattern[i] = "{namespace}" THEN namespace
            ELSE IF pattern[i] = "{address}" THEN Join(address)
            ELSE pattern[i]])

\* the two parts of the score exchanged
Score_Swapped(block_number, log_index) ==
    (log_index * SCORE_BLOCK_MULTIPLIER) + block_number

\* the block number weighs a thousand
Score_Thousand(block_number, log_index) == (block_number * 1000) + log_index

\* line 223
Score(block_number, log_index) == (block_number * SCORE_BLOCK_MULTIPLIER) + log_index

\* line 220: the decoded arguments are a function of the log's topics and data
get_event_data(log) == << "args", log.topics, log.data >>

\* lines 232-245: the member stored for a matched log
Member(f, tx_hash, rc, log) ==
    JsonDumps(
      [eventName   |-> f.events_by_topic[LogTopicStandard(log.topics[1])],
       filterName  |-> f.filter_name,
       txHash      |-> tx_hash,
       blockNumber |-> ParseHex(rc.blockNumber),
       txIndex     |-> ParseHex(rc.transactionIndex),
       logIndex    |-> ParseHex(log.logIndex),
       address     |-> Join(log.address),
       topics      |-> [i \in 1..Len(log.topics) |-> Join(MemberTopic(log.topics[i]))],
       data        |-> log.data,
       args        |-> get_event_data(log),
       _score      |-> Score(ParseHex(rc.blockNumber), ParseHex(log.logIndex))])

\* lines 248-251: commands_by_key[redis_key][member] = score
AddCommand(cmds, key, member, score) ==
    IF \E i \in 1..Len(cmds) : cmds[i].key = key
    THEN [i \in 1..Len(cmds) |->
            IF cmds[i].key = key
            THEN [cmds[i] EXCEPT !.mapping = (member :> score) @@ @]
            ELSE cmds[i]]
    ELSE Append(cmds, [key |-> key, mapping |-> (member :> score)])

\* line 213: the log's topic is one the filter knows
TopicMatches(f, log) == LogTopicStandard(log.topics[1]) \in DOMAIN f.events_by_topic

\* a matching log that fails to decode discards the commands gathered so far
Accumulate_DecodeFailureDrops(acc, f, tx_hash, rc, log) ==
    IF TopicMatches(f, log) /\ log.decodable
    THEN [acc EXCEPT
            !.cmds  = AddCommand(@,
                                 FormatKey(f.redis_key_pattern, NAMESPACE, log.address),
                                 Member(f, tx_hash, rc, log),
                                 Score(ParseHex(rc.blockNumber), ParseHex(log.logIndex))),
            !.found = @ + 1]
    ELSE IF TopicMatches(f, log)
    THEN [acc EXCEPT !.cmds = <<>>, !.found = 0]
    ELSE acc

\* lines 213-261 for a log that passed the gate of filter f: a matching log
\* that decodes adds its command, any other adds nothing
Accumulate(acc, f, tx_hash, rc, log) ==
    IF TopicMatches(f, log) /\ log.decodable
    THEN [acc EXCEPT
            !.cmds  = AddCommand(@,
                                 FormatKey(f.redis_key_pattern, NAMESPACE, log.address),
                                 Member(f, tx_hash, rc, log),
                                 Score(ParseHex(rc.blockNumber), ParseHex(log.logIndex))),
            !.found = @ + 1]
    ELSE acc

\* lines 198-209: the log has its three fields and a parsable index
LogUsable(log) ==
    /\ log.address # NONE /\ log.address # <<>>
    /\ log.topics # <<>>
    /\ log.logIndex # NONE
    /\ IsHex(log.logIndex)

RECURSIVE EFRun_StopsAtBadLog(_, _, _, _, _, _)
\* a log with a missing field ends the loop over the logs
EFRun_StopsAtBadLog(tx_hash, rc, li, fi, acc, memo) ==
    IF li > Len(rc.logs) \/ ~ LogUsable(rc.logs[li])
    THEN [pc |-> IF acc.found > 0 THEN "ef_exec" ELSE "ef_end",
          li |-> 0, fi |-> 0, acc |-> acc, memo |-> memo]
    ELSE LET log == rc.logs[li] IN
      IF fi > Len(processed_filters)
      THEN EFRun_StopsAtBadLog(tx_hash, rc, li + 1, 1, acc, memo)
      ELSE LET al == Lower(log.address) IN
        IF al \in DOMAIN memo
        THEN EFRun_StopsAtBadLog(tx_hash, rc, li, fi + 1,
                   IF memo[al]
                   THEN Accumulate([acc EXCEPT !.passed = @ \cup {<<li, fi>>}],
                                   processed_filters[fi], tx_hash, rc, log)
                   ELSE [acc EXCEPT !.rejected = @ \cup {<<li, fi>>}],
                   memo)
        ELSE IF ~ ValidAddress(al)
        THEN EFRun_StopsAtBadLog(tx_hash, rc, li, fi, acc, (al :> FALSE) @@ memo)
        ELSE [pc |-> "ef_get", li |-> li, fi |-> fi, acc |-> acc, memo |-> memo]

RECURSIVE EFRun(_, _, _, _, _, _)
\* The log loop of lines 196-264 from log li, filter fi, as far as it runs
\* without suspending: a gate answered by detected_pool_addresses (or by an
\* address to_checksum_address rejects, whose three attempts raise at once) does
\* not suspend; the first other address suspends in the detector's cache lookup.
EFRun(tx_hash, rc, li, fi, acc, memo) ==
    IF li > Len(rc.logs)
    THEN [pc |-> IF acc.found > 0 THEN "ef_exec" ELSE "ef_end",
          li |-> 0, fi |-> 0, acc |-> acc, memo |-> memo]
    ELSE LET log == rc.logs[li] IN
      IF ~ LogUsable(log) \/ fi > Len(processed_filters)
      THEN EFRun(tx_hash, rc, li + 1, 1, acc, memo)
      ELSE LET al == Lower(log.address) IN
        IF al \in DOMAIN memo
        THEN EFRun(tx_hash, rc, li, fi + 1,
                   IF memo[al]
                   THEN Accumulate([acc EXCEPT !.passed = @ \cup {<<li, fi>>}],
                                   processed_filters[fi], tx_hash, rc, log)
                   ELSE [acc EXCEPT !.rejected = @ \cup {<<li, fi>>}],
                   memo)
        ELSE IF ~ ValidAddress(al)
        THEN EFRun(tx_hash, rc, li, fi, acc, (al :> FALSE) @@ memo)
        ELSE [pc |-> "ef_get", li |-> li, fi |-> fi, acc |-> acc, memo |-> memo]

\* the task tk of slot t after the loop ran on from (li, fi) with gate memo
EFContinue(t, tk, li, fi, acc, memo) ==
    \E r \in {EFRun(tk.tx_hash, chain[tk.tx_hash], li, fi, acc, memo)} :
    /\ detected_pool_addresses' = r.memo
    /\ tasks' = [tasks EXCEPT ![t] =
          IF r.pc = "ef_end"
          THEN [HookReturned(tk) EXCEPT !.passed = r.acc.passed,
                                        !.rejected = r.acc.rejected,
                                        !.stored = "none"]
          ELSE [tk EXCEPT !.pc = r.pc, !.li = r.li, !.fi = r.fi, !.attempt = 0,
                         !.cmds = r.acc.cmds, !.found = r.acc.found,
                         !.passed = r.acc.passed, !.rejected = r.acc.rejected]]

\* transactionIndex is not looked at before the log loop
EFSetup_IndexUnchecked(t, tk, handle) ==
    LET rc == chain[tk.tx_hash] IN
    /\ detRedis' = (IF detRedis = 0 THEN handle ELSE detRedis)
    /\ IF IsHex(rc.blockNumber)
       THEN EFContinue(t, tk, 1, 1,
                       [cmds |-> <<>>, found |-> 0, passed |-> {}, rejected |-> {}],
                       detected_pool_addresses)
       ELSE /\ tasks' = [tasks EXCEPT ![t] = HookReturned(tk)]
            /\ UNCHANGED detected_pool_addresses

\* lines 172-186 once the handle is there: the detector is created on first
\* use with this handle; a missing or unparsable blockNumber / transactionIndex
\* returns; else the log loop starts
EFSetup(t, tk, handle) ==
    LET rc == chain[tk.tx_hash] IN
    /\ detRedis' = (IF detRedis = 0 THEN handle ELSE detRedis)
    /\ IF IsHex(rc.blockNumber) /\ IsHex(rc.transactionIndex)
       THEN EFContinue(t, tk, 1, 1,
                       [cmds |-> <<>>, found |-> 0, passed |-> {}, rejected |-> {}],
                       detected_pool_addresses)
       ELSE /\ tasks' = [tasks EXCEPT ![t] = HookReturned(tk)]
            /\ UNCHANGED detected_pool_addresses

\* line 166: the receipt has no key "logs", or its list of logs is empty
NoLogs(rc) == IF "logs" \in DOMAIN rc THEN rc.logs = <<>> ELSE TRUE

IsEventFilterTurn(t) ==
    /\ tasks[t].pc = "hook"
    /\ tasks[t].hook <= Len(hooks)
    /\ hooks[tasks[t].hook] = "EventFilter"

\* line 166: nothing to do for a receipt without logs
EFNoLogs(t) ==
    /\ IsEventFilterTurn(t)
    /\ NoLogs(chain[tasks[t].tx_hash])
    /\ tasks' = [tasks EXCEPT ![t] = HookReturned(Invoke(@))]
    /\ UNCHANGED << cfgVars, det, queue, retry_counts, spawned, supPc, poolVars, redis,
                    dmRedis, detRedis, detected_pool_addresses, kvVars, prodVars,
                    connErrs, histVars, errVars >>

\* line 171, get_pool returns the existing handle without suspending
EFStartFast(t) ==
    /\ IsEventFilterTurn(t)
    /\ ~ NoLogs(chain[tasks[t].tx_hash])
    /\ PoolReady
    /\ EFSetup(t, Invoke(tasks[t]), pool)
    /\ UNCHANGED << cfgVars, det, queue, retry_counts, spawned, supPc, poolVars, redis,
                    dmRedis, kvVars, prodVars, connErrs, histVars, errVars >>

\* line 171, get_pool finds no handle: the task takes the lock and constructs
EFStartConstruct(t) ==
    /\ IsEventFilterTurn(t)
    /\ ~ NoLogs(chain[tasks[t].tx_hash])
    /\ PoolCanConstruct
    /\ poolLock' = t
    /\ handles' = handles + 1
    /\ pool' = handles + 1
    /\ tasks' = [tasks EXCEPT ![t] = [Invoke(@) EXCEPT !.pc = "ef_ping"]]
    /\ UNCHANGED << cfgVars, det, queue, retry_counts, spawned, supPc, closed, redis,
                    dmRedis, detRedis, detected_pool_addresses, kvVars, prodVars,
                    connErrs, histVars, errVars >>

\* the ping of the handle the task constructed answers, or raises: get_pool
\* raises ConnectionError, caught at line 184, and process_receipt returns
EFPing(t) ==
    /\ tasks[t].pc = "ef_ping"
    /\ poolLock' = 0
    /\ \/ EFSetup(t, tasks[t], pool)
       \/ /\ tasks' = [tasks EXCEPT ![t] = HookReturned(@)]
          /\ UNCHANGED << detRedis, detected_pool_addresses >>
    /\ UNCHANGED << cfgVars, det, queue, retry_counts, spawned, supPc, pool, handles,
                    closed, redis, dmRedis, kvVars, prodVars, connErrs, histVars,
                    errVars >>

\* the gate got the detector's answer for the log at (li, fi), lines 73-86:
\* a pool is recorded and passes; anything else is tried again, and after the
\* last attempt recorded as no pool
GateAnswer(t, is_pool) ==
    LET tk  == tasks[t]
        rc  == chain[tk.tx_hash]
        log == rc.logs[tk.li]
        al  == Lower(log.address)
        acc == [cmds |-> tk.cmds, found |-> tk.found,
                passed |-> tk.passed, rejected |-> tk.rejected] IN
    IF is_pool
    THEN EFContinue(t, tk, tk.li, tk.fi, acc, (al :> TRUE) @@ detected_pool_addresses)
    ELSE IF tk.attempt + 1 < DETECT_RETRY_COUNT
    THEN /\ tasks' = [tasks EXCEPT ![t] = [@ EXCEPT !.pc = "ef_get", !.attempt = @ + 1]]
         /\ UNCHANGED detected_pool_addresses
    ELSE EFContinue(t, tk, tk.li, tk.fi, acc, (al :> FALSE) @@ detected_pool_addresses)

\* _cache_result: the set is done, or fails and only a warning is logged
CacheResult(key, verdict, written) ==
    poolCache' = (IF written THEN (key :> verdict) @@ poolCache ELSE poolCache)

\* uniswapv3_detector.py:147, the cache lookup answers: a hit is the verdict;
\* a miss goes on to the checks; a raise ends at line 199 with False cached
DetectorGet(t) ==
    LET key == PoolCheckKey(Lower(chain[tasks[t].tx_hash].logs[tasks[t].li].address)) IN
    /\ tasks[t].pc = "ef_get"
    /\ \/ /\ key \in DOMAIN poolCache
          /\ GateAnswer(t, poolCache[key])
          /\ UNCHANGED poolCache
       \/ /\ key \notin DOMAIN poolCache
          /\ tasks' = [tasks EXCEPT ![t] = [@ EXCEPT !.pc = "ef_eval"]]
          /\ UNCHANGED << poolCache, detected_pool_addresses >>
       \/ /\ \E written \in BOOLEAN : CacheResult(key, FALSE, written)
          /\ GateAnswer(t, FALSE)
    /\ UNCHANGED << cfgVars, det, queue, retry_counts, spawned, supPc, poolVars, redis,
                    dmRedis, detRedis, htable, zsets, prodVars, connErrs, histVars,
                    errVars >>

\* lines 153-200: the checks against the node end with a verdict, which
\* _cache_result stores
DetectorEvaluate(t) ==
    LET key == PoolCheckKey(Lower(chain[tasks[t].tx_hash].logs[tasks[t].li].address)) IN
    /\ tasks[t].pc = "ef_eval"
    /\ \E verdict \in BOOLEAN, written \in BOOLEAN :
          /\ CacheResult(key, verdict, written)
          /\ GateAnswer(t, verdict)
    /\ UNCHANGED << cfgVars, det, queue, retry_counts, spawned, supPc, poolVars, redis,
                    dmRedis, detRedis, htable, zsets, prodVars, connErrs, histVars,
                    errVars >>

\* a pipeline that failed raises out of process_receipt
PipelineStep_Raises(tk, ok) ==
    LET st == IF ok THEN tk.stored ELSE "failed" IN
    IF Len(tk.cmds) = 1
    THEN IF st = "failed"
         THEN [HookRaised(tk) EXCEPT !.stored = st]
         ELSE [HookReturned(tk) EXCEPT !.stored = "all"]
    ELSE [tk EXCEPT !.cmds = Tail(@), !.stored = st]

\* the pipeline went one command further: after the last one execute returns
\* (stored "all") or raises because some command failed (stored "failed")
PipelineStep(tk, ok) ==
    LET st == IF ok THEN tk.stored ELSE "failed" IN
    IF Len(tk.cmds) = 1
    THEN [HookReturned(tk) EXCEPT !.stored = IF st = "failed" THEN st ELSE "all"]
    ELSE [tk EXCEPT !.cmds = Tail(@), !.stored = st]

\* lines 268-274, a pipeline without transaction: the store runs the next zadd
\* or fails it (an error reply, or the connection is gone), then goes on to
\* the one after; other clients' commands run in between
EFExecute(t) ==
    LET tk == tasks[t] IN
    /\ tk.pc = "ef_exec"
    /\ \/ /\ zsets' = ZAdd(zsets, tk.cmds[1].key, tk.cmds[1].mapping)
          /\ tasks' = [tasks EXCEPT ![t] = PipelineStep(@, TRUE)]
       \/ /\ tasks' = [tasks EXCEPT ![t] = PipelineStep(@, FALSE)]
          /\ UNCHANGED zsets
    /\ UNCHANGED << cfgVars, det, queue, retry_counts, spawned, supPc, poolVars, redis,
                    dmRedis, detRedis, detected_pool_addresses, poolCache, htable,
                    prodVars, connErrs, histVars, errVars >>

-----------------------------------------------------------------------------
(* The pool detector, call by call:                                        *)
(* UniswapV3PoolDetector.is_uniswap_v3_pool and what it calls.             *)

\* line 226, "sig_hex in bytecode_hex"
Contains(bytecode_hex, sig_hex) ==
    \E i \in 1..Len(bytecode_hex) : bytecode_hex[i] = sig_hex

\* lines 222-227
signature_matches(bytecode_hex) ==
    Cardinality({ i \in 1..Len(REQUIRED_FUNCTION_SIGNATURES) :
                    Contains(bytecode_hex, REQUIRED_FUNCTION_SIGNATURES[i]) })

\* _has_contract_code, lines 204-209, on the answer of get_code
has_contract_code(answer) == answer # RAISES /\ answer # CODE_NONE

\* _has_required_function_signatures, lines 213-240, on the answer of get_code
has_required_function_signatures(answer) ==
    /\ answer # RAISES
    /\ answer # CODE_NONE
    /\ signature_matches(answer) >= REQUIRED_MATCHES

\* _is_valid_fee_tier, line 244
is_valid_fee_tier(fee) == fee \in Int /\ fee \in VALID_FEE_TIERS

\* _is_valid_tick_spacing, lines 248-259
is_valid_tick_spacing(fee, tick_spacing) ==
    /\ tick_spacing \in Int
    /\ fee \in DOMAIN expected_tick_spacing
    /\ expected_tick_spacing[fee] = tick_spacing

\* json.loads of what json.dumps wrote
JsonLoads(s) == s[2]

\* line 281 and line 343
PoolMetadataKey(a) == "pool_metadata:" \o ToChecksumAddress(a)
Erc20Key(token) == "erc20_metadata:" \o token

\* SET key value EX ex
SetEx(cache, key, value, ex) == (key :> [value |-> value, ex |-> ex]) @@ cache

\* the view calls of lines 291-295, in order
PoolViews == <<"token0", "token1", "factory", "fee", "tickSpacing">>

\* the calls of lines 353-363 for one token
Erc20Views == <<"name", "symbol", "decimals">>

\* one raising call replaces every field by its default
Erc20Metadata_AllOrNothing(raises) ==
    IF raises # {}
    THEN [name |-> "Unknown Token", symbol |-> "UNKNOWN", decimals |-> 18]
    ELSE [name |-> "Token", symbol |-> "TKN", decimals |-> 6]

\* lines 351-371: each field whose call raises (raises: the fields that do)
\* falls back to its default, the others are what the token answered
Erc20Metadata(raises) ==
    [name     |-> IF "name" \in raises THEN "Unknown Token" ELSE "Token",
     symbol   |-> IF "symbol" \in raises THEN "UNKNOWN" ELSE "TKN",
     decimals |-> IF "decimals" \in raises THEN 18 ELSE 6]

\* line 345 raises for the token looked up as number ti: "get_erc" fails
\* the lookup of both tokens, the two others that of one token
Erc20GetRaises(ti) ==
    \/ "get_erc" \in scen.kvFail
    \/ ti = 1 /\ "get_erc_first" \in scen.kvFail
    \/ ti = 2 /\ "get_erc_second" \in scen.kvFail

DetUnchanged ==
    UNCHANGED << cfgVars, queue, retry_counts, tasks, spawned, supPc, poolVars,
                 redis, dmRedis, detRedis, detected_pool_addresses, kvVars,
                 prodVars, connErrs, histVars, errVars >>

\* the call returns result, or ends raising an exception to its caller (then
\* there is no result, written FALSE): the outcome is logged
Return(d, result, raised) ==
    [d EXCEPT !.pc = "returned",
              !.log = Append(@, [result |-> result, raised |-> raised,
                                 cache |-> d.cache,
                                 rpc |-> d.rpc, kv |-> d.kv, hit |-> d.hit,
                                 failed |-> d.failed, metaFrom |-> d.metaFrom])]

\* "await self._cache_result(cache_key, verdict)" is reached after check
\* failed ("-": none) ended the evaluation
ToCacheResult(d, verdict, failed) ==
    [d EXCEPT !.pc = "set", !.verdict = verdict, !.failed = failed]

\* the metadata is accepted without the tick-spacing check
Validate_NoTickSpacing(d, meta) ==
    IF ~ is_valid_fee_tier(meta.fee) THEN ToCacheResult(d, FALSE, "fee")
    ELSE IF meta.token0.address # WETH /\ meta.token1.address # WETH
    THEN ToCacheResult(d, FALSE, "weth")
    ELSE ToCacheResult(d, TRUE, "-")

\* lines 172-195 on the metadata: fee tier, tick spacing, WETH, in order
Validate(d, meta) ==
    IF ~ is_valid_fee_tier(meta.fee) THEN ToCacheResult(d, FALSE, "fee")
    ELSE IF ~ is_valid_tick_spacing(meta.fee, meta.tick_spacing)
    THEN ToCacheResult(d, FALSE, "tick_spacing")
    ELSE IF meta.token0.address # WETH /\ meta.token1.address # WETH
    THEN ToCacheResult(d, FALSE, "weth")
    ELSE ToCacheResult(d, TRUE, "-")

\* is_uniswap_v3_pool is called, lines 140-147: an address
\* to_checksum_address rejects raises into the handler of line 197, where
\* cache_key is not bound yet, so line 199 raises out of the call; else the
\* call awaits the lookup of its verdict
DetCall(w) ==
    /\ det[w].pc \in {"idle", "returned"}
    /\ det[w].call < MaxCalls
    /\ det' = [det EXCEPT ![w] =
          LET d == [@ EXCEPT !.call = @ + 1, !.rpc = <<>>, !.kv = <<>>,
                             !.hit = FALSE, !.failed = "-", !.metaFrom = "-",
                             !.meta = <<>>, !.vi = 0, !.ti = 0, !.tokens = <<>>] IN
          IF ValidAddress(scen.address)
          THEN [d EXCEPT !.pc = "get"]
          ELSE Return([d EXCEPT !.failed = "address"], FALSE, TRUE)]
    /\ DetUnchanged

\* line 147 answers: a stored verdict is returned; no entry starts the
\* checks; a raise ends at line 199 with False
DetCacheGet(w) ==
    LET key == PoolCheckKey(scen.address)
        d   == [det[w] EXCEPT !.kv = Append(@, <<"GET", key>>)] IN
    /\ det[w].pc = "get"
    /\ det' = [det EXCEPT ![w] =
          IF "get_check" \in scen.kvFail THEN ToCacheResult(d, FALSE, "lookup")
          ELSE IF key \in DOMAIN d.cache
          THEN Return([d EXCEPT !.hit = TRUE], JsonLoads(d.cache[key].value), FALSE)
          ELSE [d EXCEPT !.pc = "code"]]
    /\ DetUnchanged

\* lines 154-156: get_code answers _has_contract_code
DetHasCode(w) ==
    LET d == [det[w] EXCEPT !.rpc = Append(@, "eth_getCode")] IN
    /\ det[w].pc = "code"
    /\ det' = [det EXCEPT ![w] =
          IF has_contract_code(scen.code1) THEN [d EXCEPT !.pc = "sigs"]
          ELSE ToCacheResult(d, FALSE, "code")]
    /\ DetUnchanged

\* lines 159-162: get_code answers _has_required_function_signatures; then
\* get_pool_metadata awaits the lookup of the cached metadata
DetSignatures(w) ==
    LET d == [det[w] EXCEPT !.rpc = Append(@, "eth_getCode")] IN
    /\ det[w].pc = "sigs"
    /\ det' = [det EXCEPT ![w] =
          IF has_required_function_signatures(scen.code2)
          THEN [d EXCEPT !.pc = "meta_get"]
          ELSE ToCacheResult(d, FALSE, "selectors")]
    /\ DetUnchanged

\* line 282 answers: cached metadata is used as it is; no entry goes on to
\* the view calls; a raise makes get_pool_metadata return None (line 335)
DetMetadataGet(w) ==
    LET key == PoolMetadataKey(scen.address)
        d   == [det[w] EXCEPT !.kv = Append(@, <<"GET", key>>)] IN
    /\ det[w].pc = "meta_get"
    /\ det' = [det EXCEPT ![w] =
          IF "get_meta" \in scen.kvFail THEN ToCacheResult(d, FALSE, "metadata")
          ELSE IF key \in DOMAIN d.cache
          THEN Validate([d EXCEPT !.metaFrom = "cache",
                                  !.meta = <<JsonLoads(d.cache[key].value)>>],
                        JsonLoads(d.cache[key].value))
          ELSE [d EXCEPT !.pc = "views", !.vi = 1]]
    /\ DetUnchanged

\* lines 291-298: the next of the five view calls answers or raises; a raise
\* makes get_pool_metadata return None; after the last one the metadata of
\* the first token is looked up
DetView(w) ==
    LET d == [det[w] EXCEPT !.rpc = Append(@, PoolViews[det[w].vi])] IN
    /\ det[w].pc = "views"
    /\ det' = [det EXCEPT ![w] =
          IF scen.viewFail = d.vi THEN ToCacheResult(d, FALSE, "metadata")
          ELSE IF d.vi < Len(PoolViews) THEN [d EXCEPT !.vi = @ + 1]
          ELSE [d EXCEPT !.pc = "erc", !.ti = 1, !.tokens = <<>>]]
    /\ DetUnchanged

\* _get_erc20_metadata for the next token, lines 339-379: a cached entry is
\* returned; else the three calls are made (each falls back when it raises)
\* and the entry is stored for 24 hours; a raise of the lookup or of the set
\* returns None.  After both tokens, line 309: one None makes
\* get_pool_metadata return None, else the metadata is built and its set
\* awaited
DetErc20(w) ==
    LET d0    == det[w]
        token == IF d0.ti = 1 THEN scen.token0 ELSE scen.token1
        key   == Erc20Key(token)
        d1    == [d0 EXCEPT !.kv = Append(@, <<"GET", key>>)]
        d2    == IF Erc20GetRaises(d0.ti)
                 THEN [d1 EXCEPT !.tokens = Append(@, <<>>)]
                 ELSE IF key \in DOMAIN d1.cache
                 THEN [d1 EXCEPT !.tokens = Append(@, <<JsonLoads(d1.cache[key].value)>>)]
                 ELSE LET md == Erc20Metadata(scen.ercRaises)
                          d3 == [d1 EXCEPT
                                   !.rpc = @ \o Erc20Views,
                                   !.kv = Append(@, <<"SET", key, JsonDumps(md), 86400>>)]
                      IN  IF "set_erc" \in scen.kvFail
                          THEN [d3 EXCEPT !.tokens = Append(@, <<>>)]
                          ELSE [d3 EXCEPT
                                   !.tokens = Append(@, <<md>>),
                                   !.cache = SetEx(@, key, JsonDumps(md), 86400)]
    IN
    /\ det[w].pc = "erc"
    /\ det' = [det EXCEPT ![w] =
          IF d2.ti = 1 THEN [d2 EXCEPT !.ti = 2]
          ELSE IF d2.tokens[1] = <<>> \/ d2.tokens[2] = <<>>
          THEN ToCacheResult(d2, FALSE, "metadata")
          ELSE [d2 EXCEPT
                  !.pc = "meta_set",
                  !.meta = << [address |-> ToChecksumAddress(scen.address),
                               token0 |-> [address |-> scen.token0] @@ d2.tokens[1][1],
                               token1 |-> [address |-> scen.token1] @@ d2.tokens[2][1],
                               fee |-> scen.fee,
                               tick_spacing |-> scen.tick_spacing,
                               factory |-> "0xFactory"] >>]]
    /\ DetUnchanged

\* line 330 answers: the metadata is cached for an hour and returned, or the
\* set raises and get_pool_metadata returns None; lines 166-195 follow
DetMetadataSet(w) ==
    LET key == PoolMetadataKey(scen.address)
        d   == [det[w] EXCEPT
                  !.kv = Append(@, <<"SET", key, JsonDumps(det[w].meta[1]), 3600>>)] IN
    /\ det[w].pc = "meta_set"
    /\ det' = [det EXCEPT ![w] =
          IF "set_meta" \in scen.kvFail THEN ToCacheResult(d, FALSE, "metadata")
          ELSE Validate([d EXCEPT !.metaFrom = "calls",
                                  !.cache = SetEx(@, key, JsonDumps(d.meta[1]), 3600)],
                        d.meta[1])]
    /\ DetUnchanged

\* the verdict is stored under a key that does not carry the address
cache_result_OneKey(d, cache_key, result) ==
    LET d1 == [d EXCEPT !.kv = Append(@, <<"SET", cache_key, JsonDumps(result), 3600>>)] IN
    IF "set_check" \in scen.kvFail THEN d1
    ELSE [d1 EXCEPT !.cache = SetEx(@, "uniswap_v3_pool_check", JsonDumps(result), 3600)]

\* _cache_result, lines 261-266: the set is issued; when it raises only a
\* warning is logged
cache_result(d, cache_key, result) ==
    LET d1 == [d EXCEPT !.kv = Append(@, <<"SET", cache_key, JsonDumps(result), 3600>>)] IN
    IF "set_check" \in scen.kvFail THEN d1
    ELSE [d1 EXCEPT !.cache = SetEx(@, cache_key, JsonDumps(result), 3600)]

\* the verdict is stored by the first evaluation only: the write depends on
\* which evaluation it is, which is no input of the classification
DetCacheResult_FirstOnly(w) ==
    /\ det[w].pc = "set"
    /\ det' = [det EXCEPT ![w] =
          Return((IF w = 1
                  THEN cache_result(@, PoolCheckKey(scen.address), det[w].verdict)
                  ELSE @),
                 det[w].verdict, FALSE)]
    /\ DetUnchanged

\* the set of _cache_result answers and the call returns its verdict
DetCacheResult(w) ==
    /\ det[w].pc = "set"
    /\ det' = [det EXCEPT ![w] =
          Return(cache_result(@, PoolCheckKey(scen.address), det[w].verdict),
                 det[w].verdict, FALSE)]
    /\ DetUnchanged

Detector(w) ==
    \/ DetCall(w) \/ DetCacheGet(w) \/ DetHasCode(w) \/ DetSignatures(w)
    \/ DetMetadataGet(w) \/ DetView(w) \/ DetErc20(w) \/ DetMetadataSet(w)
    \/ DetCacheResult(w)

-----------------------------------------------------------------------------
(* The specification of the running service.                               *)

Worker(t) ==
    \/ WorkerFetch(t) \/ WorkerBlockNumber(t) \/ WorkerDelete(t) \/ WorkerLpush(t)
    \/ HooksDone(t) \/ DumperStart(t) \/ DumperHset(t)
    \/ EFNoLogs(t) \/ EFStartFast(t) \/ EFStartConstruct(t) \/ EFPing(t)
    \/ DetectorGet(t) \/ DetectorEvaluate(t) \/ EFExecute(t)

Next ==
    \/ \E h \in Hashes : Produce(h)
    \/ Supervisor
    \/ \E t \in TaskIds : Worker(t)

Spec == Init /\ [][Next]_vars

-----------------------------------------------------------------------------
(* Construction: TxProcessor.__init__, PreloaderManager.load_hooks and     *)
(* EventFilter.__init__ with _prepare_filters.  None of it awaits.         *)

\* entries of preloaders.json; loads: importing the module, finding the class
\* and calling its constructor all succeed
PL_DUMPER == [class_name |-> "ReceiptDumper", loads |-> TRUE]
PL_FILTER == [class_name |-> "EventFilter", loads |-> TRUE]
PL_BROKEN == [class_name |-> "TraceDumper", loads |-> FALSE]

Preloaders == {PL_DUMPER, PL_FILTER, PL_BROKEN}

\* an item of an ABI file; hash: the hex digits event_abi_to_log_topic
\* computes for it, broken: event_abi_to_log_topic raises on it
AbiItem(type, name, hash, broken) ==
    [type |-> type, name |-> name, hash |-> hash, broken |-> broken]

ABI_POOL ==
    << AbiItem("event", "Swap", <<"c","4">>, FALSE),
       AbiItem("function", "slot0", <<>>, FALSE),
       AbiItem("event", "Odd", <<>>, TRUE),
       AbiItem("event", "Mint", <<"0","a">>, FALSE) >>

\* the ABI files on disk: exists is Path.exists(), valid is json.load returning
AbiFiles ==
    [p \in {"abi/pool.json", "abi/gone.json", "abi/bad.json"} |->
        [exists |-> p # "abi/gone.json", valid |-> p = "abi/pool.json",
         json |-> IF p = "abi/pool.json" THEN ABI_POOL ELSE <<>>]]

\* entries of the event filter configuration
FilterDef(name, path, topics) ==
    [filter_name |-> name, abi_path |-> path, event_topics |-> topics,
     redis_key_pattern |-> <<name \o ":", "{namespace}", ":", "{address}">>]

FD_SWAPS == FilterDef("swaps", "abi/pool.json", << <<"0","X","C","4">> >>)
FD_EVENTS == FilterDef("events", "abi/pool.json", << <<"c","4">>, T_MINT, <<"0","x","e","e">> >>)
FD_BURNS == FilterDef("burns", "abi/pool.json", << <<"0","x","f","f">> >>)
FD_GONE == FilterDef("gone", "abi/gone.json", << T_SWAP >>)
FD_BAD == FilterDef("bad", "abi/bad.json", << T_SWAP >>)

FilterDefs == {FD_SWAPS, FD_EVENTS, FD_BURNS, FD_GONE, FD_BAD}

\* the sequences of up to n different elements of S
Arrangements(S, n) ==
    UNION { { s \in [1..k -> S] : \A i, j \in 1..k : s[i] = s[j] => i = j } : k \in 0..n }

\* lines 118-123: the configured topics in their normal form
ConfigTopicsSet(filter_def) ==
    { ConfigTopicStandard(filter_def.event_topics[i]) :
        i \in 1..Len(filter_def.event_topics) }

\* line 133
AbiTopicStandard(item) == <<"0", "x">> \o Lower(item.hash)

\* lines 127-144: the events of the ABI whose topic is configured, by topic;
\* an item on which the topic computation raises is passed over, and of two
\* items with one topic the later stays
TargetEventDetails(abi, config_topics_set) ==
    LET hits == { i \in 1..Len(abi) :
                    /\ abi[i].type = "event"
                    /\ ~ abi[i].broken
                    /\ AbiTopicStandard(abi[i]) \in config_topics_set }
        Last(k) == CHOOSE i \in hits :
                      /\ AbiTopicStandard(abi[i]) = k
                      /\ \A j \in hits : AbiTopicStandard(abi[j]) = k => j <= i
    IN [k \in { AbiTopicStandard(abi[i]) : i \in hits } |-> abi[Last(k)].name]

\* what one pass of the loop of line 94 did with its filter: "prepared",
\* "skipped" (line 153), or the exception the handler of line 161 logged
PrepareOutcome(filter_def, loaded_abis) ==
    LET file == AbiFiles[filter_def.abi_path] IN
    IF filter_def.abi_path \notin loaded_abis /\ ~ file.exists
    THEN "RuntimeError: ABI file not found"
    ELSE IF filter_def.abi_path \notin loaded_abis /\ ~ file.valid
    THEN "RuntimeError: Error decoding ABI file"
    ELSE IF TargetEventDetails(file.json, ConfigTopicsSet(filter_def)) = <<>>
    THEN "skipped"
    ELSE "prepared"

\* line 155: the dict entry of the filter's name is set; a new name goes last
DictSet(dict, entry) ==
    IF \E i \in 1..Len(dict) : dict[i].filter_name = entry.filter_name
    THEN [i \in 1..Len(dict) |->
            IF dict[i].filter_name = entry.filter_name THEN entry ELSE dict[i]]
    ELSE Append(dict, entry)

\* lines 94-162 from filter i on; acc holds processed_filters, loaded_abis
\* and, as history, the outcome of each pass
RECURSIVE PrepareFrom(_, _, _)
PrepareFrom(filters, i, acc) ==
    IF i > Len(filters) THEN acc
    ELSE LET filter_def == filters[i]
             outcome == PrepareOutcome(filter_def, acc.loaded_abis)
             loaded == IF outcome \in {"skipped", "prepared"}
                       THEN acc.loaded_abis \cup {filter_def.abi_path}
                       ELSE acc.loaded_abis
             entry == [filter_name |-> filter_def.filter_name,
                       events_by_topic |->
                           TargetEventDetails(AbiFiles[filter_def.abi_path].json,
                                              ConfigTopicsSet(filter_def)),
                       redis_key_pattern |-> filter_def.redis_key_pattern]
         IN PrepareFrom(filters, i + 1,
               [processed_filters |->
                    IF outcome = "prepared"
                    THEN DictSet(acc.processed_filters, entry)
                    ELSE acc.processed_filters,
                loaded_abis |-> loaded,
                outcomes |-> Append(acc.outcomes, outcome),
                error |-> acc.error])

\* EventFilter._prepare_filters: it returns whatever happened to a filter
_prepare_filters(filters) ==
    PrepareFrom(filters, 1,
        [processed_filters |-> <<>>, loaded_abis |-> {}, outcomes |-> <<>>,
         error |-> <<>>])

\* a hook that fails to load is left out and the others are returned
RECURSIVE LoadFrom_SkipsFailed(_, _, _)
LoadFrom_SkipsFailed(preloaders, i, acc) ==
    IF i > Len(preloaders) THEN acc
    ELSE IF ~ preloaders[i].loads
    THEN LoadFrom_SkipsFailed(preloaders, i + 1, acc)
    ELSE LoadFrom_SkipsFailed(preloaders, i + 1,
            [acc EXCEPT !.hooks = Append(@, preloaders[i].class_name),
                        !.instantiated = Append(@, preloaders[i].class_name)])

\* manager.py:28 from entry i on: the hooks are instantiated in the order of
\* the list; the first that fails raises ValueError out of load_hooks, and
\* the list built so far is dropped
RECURSIVE LoadFrom(_, _, _)
LoadFrom(preloaders, i, acc) ==
    IF i > Len(preloaders) THEN acc
    ELSE IF ~ preloaders[i].loads
    THEN [acc EXCEPT !.hooks = <<>>,
                     !.error = <<"ValueError", preloaders[i].class_name>>]
    ELSE LoadFrom(preloaders, i + 1,
            [acc EXCEPT !.hooks = Append(@, preloaders[i].class_name),
                        !.instantiated = Append(@, preloaders[i].class_name)])

\* PreloaderManager.load_hooks
load_hooks(preloaders) ==
    LoadFrom(preloaders, 1, [hooks |-> <<>>, instantiated |-> <<>>, error |-> <<>>])

\* main.py:17, TxProcessor(settings): the hooks are loaded, the event filter
\* among them preparing its filters in its constructor.  When load_hooks
\* raises, main() logs at line 20, finds no processor and no pool to close in
\* its finally block, and is over.
Construct ==
    LET loaded == load_hooks(boot.preloaders)
        filter == _prepare_filters(boot.filters)
        built  == \E i \in 1..Len(loaded.instantiated) :
                      loaded.instantiated[i] = "EventFilter"
    IN /\ boot.pc = "new"
       /\ boot' = [boot EXCEPT
                     !.pc = IF loaded.error = <<>> THEN "constructed" ELSE "failed",
                     !.instantiated = loaded.instantiated,
                     !.prepared = IF built THEN filter.outcomes ELSE <<>>,
                     !.error = loaded.error]
       /\ hooks' = loaded.hooks
       /\ processed_filters' = IF built THEN filter.processed_filters ELSE <<>>
       /\ supPc' = IF loaded.error = <<>> THEN "init" ELSE "exited"
       /\ UNCHANGED << caps, chain, scen, rpcClient, fn, req, det, queue, retry_counts,
                       tasks, spawned, poolVars, redis, dmRedis, detRedis,
                       detected_pool_addresses, kvVars, prodVars, connErrs,
                       histVars, errVars >>

\* the configurations drawn: every hook list with the swaps filter, and every
\* filter list with the event filter as the only hook
InitStart ==
    /\ det = [w \in Evaluations |-> IdleDet]
    /\ fn = IdleFn
    /\ req = IdleReq
    /\ rpcClient = "open"
    /\ queue = <<>>
    /\ retry_counts = [h \in Hashes |-> 0]
    /\ tasks = [t \in TaskIds |-> IdleTask]
    /\ spawned = 0
    /\ pool = 0 /\ poolLock = 0 /\ handles = 0 /\ closed = {}
    /\ redis = 0 /\ dmRedis = 0 /\ detRedis = 0
    /\ detected_pool_addresses = <<>>
    /\ poolCache = <<>>
    /\ htable = <<>>
    /\ zsets = <<>>
    /\ pushed = 0 /\ pushLog = <<>> /\ connErrs = 0
    /\ reinserts = [h \in Hashes |-> 0]
    /\ failures = [h \in Hashes |-> 0]
    /\ errPath = <<>> /\ errQueue = <<>>
    /\ caps = [tasks |-> MaxStartTasks, pushes |-> MaxStartPush,
               connErrs |-> MaxStartConnErr]
    /\ chain = CHAIN_MAIN
    /\ hooks = <<>>
    /\ processed_filters = <<>>
    /\ scen = GoodScenario
    /\ supPc = "new"
    /\ \E pl \in Arrangements(Preloaders, MaxPreloaders),
          fs \in Arrangements(FilterDefs, MaxFilters) :
          /\ pl = <<PL_FILTER>> \/ fs = <<FD_SWAPS>>
          /\ boot = [IdleBoot EXCEPT !.pc = "new", !.preloaders = pl, !.filters = fs]

NextStart == Construct \/ Next

SpecStart == InitStart /\ [][NextStart]_vars

-----------------------------------------------------------------------------
(* The RPC facade of utils/rpc.py: RpcHelper._make_request.                *)

\* what a POST of line 24 and the lines 25-30 reading its response come to:
\* the transport failed (httpx.RequestError), the status is an error one
\* (raise_for_status), the body is not JSON, the body carries an error
\* object, it carries neither error nor result, or it carries a result
PostAnswers == {"transport", "status", "garbage", "error", "noresult", "result"}

\* every failure is retried
Retried_AnyFailure(answer) == answer # "result"

\* line 31: the failures the loop goes round again for
Retried(answer) == answer = "transport"

\* lines 27-30 and 37-39: what the call returns on an answer that ends it
Returned(answer) == IF answer = "result" THEN <<"receipt">> ELSE <<>>

\* a facade method is called: line 22 enters the loop with attempt 0 and
\* line 24 awaits the first POST
RpcCall ==
    /\ req.pc \in {"idle", "returned"}
    /\ req.calls < MaxRpcCalls
    /\ req' = [req EXCEPT !.pc = "post", !.calls = @ + 1, !.attempt = 0,
                          !.posts = 1, !.delays = <<>>, !.answers = <<>>,
                          !.result = <<>>]
    /\ UNCHANGED << caps, chain, hooks, processed_filters, scen, rpcClient, fn, boot,
                    det, queue, retry_counts, tasks, spawned, supPc, poolVars, redis,
                    dmRedis, detRedis, detected_pool_addresses, kvVars, prodVars,
                    connErrs, histVars, errVars >>

\* the POST answers: lines 25-39
RpcPost ==
    /\ req.pc = "post"
    /\ \E answer \in PostAnswers :
          req' = IF Retried(answer) /\ req.attempt # req.retry
                 THEN [req EXCEPT !.pc = "sleep", !.answers = Append(@, answer)]
                 ELSE [req EXCEPT !.pc = "returned", !.answers = Append(@, answer),
                                  !.result = Returned(answer)]
    /\ UNCHANGED << caps, chain, hooks, processed_filters, scen, rpcClient, fn, boot,
                    det, queue, retry_counts, tasks, spawned, supPc, poolVars, redis,
                    dmRedis, detRedis, detected_pool_addresses, kvVars, prodVars,
                    connErrs, histVars, errVars >>

\* "await asyncio.sleep(1)" of line 36 is over: the loop takes the next
\* attempt and line 24 awaits its POST
RpcSleep ==
    /\ req.pc = "sleep"
    /\ req' = [req EXCEPT !.pc = "post", !.attempt = @ + 1, !.posts = @ + 1,
                          !.delays = Append(@, RETRY_DELAY)]
    /\ UNCHANGED << caps, chain, hooks, processed_filters, scen, rpcClient, fn, boot,
                    det, queue, retry_counts, tasks, spawned, supPc, poolVars, redis,
                    dmRedis, detRedis, detected_pool_addresses, kvVars, prodVars,
                    connErrs, histVars, errVars >>

\* a helper is drawn with its config.retry; no call has been made
InitRpc ==
    /\ det = [w \in Evaluations |-> IdleDet]
    /\ fn = IdleFn
    /\ boot = IdleBoot
    /\ \E r \in 0..MaxRetry : req = [IdleReq EXCEPT !.retry = r]
    /\ rpcClient = "open"
    /\ queue = <<>>
    /\ retry_counts = [h \in Hashes |-> 0]
    /\ tasks = [t \in TaskIds |-> IdleTask]
    /\ spawned = 0
    /\ pool = 0 /\ poolLock = 0 /\ handles = 0 /\ closed = {}
    /\ redis = 0 /\ dmRedis = 0 /\ detRedis = 0
    /\ detected_pool_addresses = <<>>
    /\ poolCache = <<>>
    /\ htable = <<>>
    /\ zsets = <<>>
    /\ pushed = 0 /\ pushLog = <<>> /\ connErrs = 0
    /\ reinserts = [h \in Hashes |-> 0]
    /\ failures = [h \in Hashes |-> 0]
    /\ errPath = <<>> /\ errQueue = <<>>
    /\ caps = [tasks |-> 0, pushes |-> 0, connErrs |-> 0]
    /\ chain = CHAIN_MAIN
    /\ hooks = <<>>
    /\ processed_filters = <<>>
    /\ scen = GoodScenario
    /\ supPc = "brpop"

NextRpc == RpcCall \/ RpcPost \/ RpcSleep

SpecRpc == InitRpc /\ [][NextRpc]_vars

-----------------------------------------------------------------------------
(* Shutdown: main() of main.py around start_consuming, and asyncio.run.    *)

\* positions of main() in its finally block, and after it
ShutdownPcs == {"fin_rpc", "fin_pool", "exited"}

\* asyncio.run cancels the tasks still in flight when main() is over
CancelAll(ts) ==
    [t \in TaskIds |-> IF ts[t].pc \in {"idle", "done"} THEN ts[t]
                        ELSE Finished(ts[t], "cancelled")]

\* main() is over, returning or raising
MainExit ==
    /\ supPc' = "exited"
    /\ tasks' = CancelAll(tasks)
    /\ poolLock' = 0

\* the process is interrupted while main() awaits in start_consuming: the
\* await raises CancelledError, which no handler of start_consuming, _init or
\* get_pool catches, and main() enters its finally block at line 22
Interrupt ==
    /\ supPc \in {"init", "init_ping", "init_rpc", "brpop", "close", "sleep5", "sleep2"}
    /\ supPc' = "fin_rpc"
    /\ poolLock' = (IF poolLock = -1 THEN 0 ELSE poolLock)
    /\ errPath' = <<>> /\ errQueue' = <<>>
    /\ UNCHANGED << cfgVars, det, queue, retry_counts, tasks, spawned, pool, handles,
                    closed, redis, dmRedis, detRedis, detected_pool_addresses,
                    kvVars, prodVars, connErrs, histVars >>

\* start_consuming ended with an exception: line 19 logs it, line 21 re-raises
\* and the finally block is entered
MainExcept ==
    /\ supPc = "crashed"
    /\ supPc' = "fin_rpc"
    /\ UNCHANGED << cfgVars, det, queue, retry_counts, tasks, spawned, poolVars,
                    redis, dmRedis, detRedis, detected_pool_addresses, kvVars,
                    prodVars, connErrs, histVars, errVars >>

\* "await processor.rpc_helper.close()" of line 25 answers.  When it returns,
\* RedisPool.close() is called: without a handle it returns at once and
\* main() is over, else it awaits the handle's close().  When it raises, the
\* exception leaves the finally block and main() is over.
FinRpcClose ==
    /\ supPc = "fin_rpc"
    /\ \/ /\ rpcClient' = "closed"
          /\ IF pool = 0
             THEN MainExit
             ELSE /\ supPc' = "fin_pool"
                  /\ UNCHANGED << tasks, poolLock >>
       \/ /\ MainExit
          /\ UNCHANGED rpcClient
    /\ UNCHANGED << caps, chain, hooks, processed_filters, scen, unitVars, det,
                    queue, retry_counts, spawned, pool, handles, closed, redis,
                    dmRedis, detRedis, detected_pool_addresses, kvVars, prodVars,
                    connErrs, histVars, errVars >>

\* "await cls._pool.close()" of redis_conn.py:47 answers: line 49 resets the
\* handle and main() returns, or the close raised and main() ends with it
FinPoolClose ==
    /\ supPc = "fin_pool"
    /\ \/ /\ closed' = (IF pool # 0 THEN closed \cup {pool} ELSE closed)
          /\ pool' = 0
       \/ UNCHANGED << pool, closed >>
    /\ MainExit
    /\ UNCHANGED << cfgVars, det, queue, retry_counts, spawned, handles, redis,
                    dmRedis, detRedis, detected_pool_addresses, kvVars, prodVars,
                    connErrs, histVars, errVars >>

\* where asyncio.run cancels every task at the interrupt, a worker ends at
\* its await while main() is still in its finally block
WorkerCancelled(t) ==
    /\ supPc \in {"fin_rpc", "fin_pool"}
    /\ InFlight(t)
    /\ tasks' = [tasks EXCEPT ![t] = Finished(@, "cancelled")]
    /\ poolLock' = (IF poolLock = t THEN 0 ELSE poolLock)
    /\ UNCHANGED << cfgVars, det, queue, retry_counts, spawned, supPc, pool, handles,
                    closed, redis, dmRedis, detRedis, detected_pool_addresses,
                    kvVars, prodVars, connErrs, histVars, errVars >>

InitStop ==
    /\ InitCommon
    /\ caps = [tasks |-> MaxStopTasks, pushes |-> MaxStopPush,
               connErrs |-> MaxStopConnErr]
    /\ chain = CHAIN_MAIN
    /\ hooks = <<"ReceiptDumper", "EventFilter">>
    /\ processed_filters = <<F_SWAPS>>
    /\ scen = GoodScenario
    /\ supPc = "init"

NextStop ==
    \/ Next
    \/ Interrupt \/ MainExcept \/ FinRpcClose \/ FinPoolClose
    \/ \E t \in TaskIds : WorkerCancelled(t)

SpecStop == InitStop /\ [][NextStop]_vars

-----------------------------------------------------------------------------
(* Runs of one hash delivered again and again: the receipt dumper is the   *)
(* only hook and the KV connection holds.                                  *)

InitRetry ==
    /\ InitCommon
    /\ caps = [tasks |-> MaxDeliveries, pushes |-> MaxRetryPush, connErrs |-> 0]
    /\ chain = CHAIN_MAIN
    /\ hooks = <<"ReceiptDumper">>
    /\ processed_filters = <<>>
    /\ scen = GoodScenario
    /\ supPc = "init"

NextRetry ==
    \/ \E h \in Hashes : Produce(h)
    \/ SupInitConstruct \/ SupInitPing \/ SupInitRpc
    \/ SupBrpopItem \/ SupBrpopOtherError \/ SupSleep2
    \/ \E t \in TaskIds :
          \/ WorkerFetch(t) \/ WorkerBlockNumber(t) \/ WorkerDelete(t)
          \/ WorkerLpush(t) \/ HooksDone(t) \/ DumperStart(t) \/ DumperHset(t)

SpecRetry == InitRetry /\ [][NextRetry]_vars

-----------------------------------------------------------------------------
(* Runs of one hash to its end: the producer pushes once, the supervisor   *)
(* pops whatever is queued, every call of a worker returns or raises.      *)

MaxLivePush == 1

InitLive ==
    /\ InitCommon
    /\ caps = [tasks |-> MaxDeliveries, pushes |-> MaxLivePush, connErrs |-> 0]
    /\ chain = CHAIN_MAIN
    /\ hooks = <<"ReceiptDumper">>
    /\ processed_filters = <<>>
    /\ scen = GoodScenario
    /\ supPc = "init"

\* the next step of the worker in slot t
LiveWorker(t) ==
    \/ WorkerFetch(t) \/ WorkerBlockNumber(t) \/ WorkerDelete(t)
    \/ WorkerLpush(t) \/ HooksDone(t) \/ DumperStart(t) \/ DumperHset(t)

\* the steps of the supervisor other than a pop
LiveSupervisor ==
    \/ SupInitConstruct \/ SupInitPing \/ SupInitRpc
    \/ SupBrpopOtherError \/ SupSleep2

NextLive ==
    \/ \E h \in Hashes : Produce(h)
    \/ LiveSupervisor
    \/ SupBrpopItem
    \/ \E t \in TaskIds : LiveWorker(t)

\* the event loop resumes every task whose awaited call has answered, and
\* every call answers: each worker and the supervisor take their next step;
\* brpop on a list that holds an item returns one, if not at the first call
\* then at a later one
FairLive ==
    /\ \A t \in TaskIds : WF_vars(LiveWorker(t))
    /\ WF_vars(LiveSupervisor)
    /\ SF_vars(SupBrpopItem)

SpecLive == InitLive /\ [][NextLive]_vars /\ FairLive

-----------------------------------------------------------------------------
(* Runs of the hook phase: two workers hold their receipts and call the    *)
(* hooks, both filters configured; the supervisor waits in brpop.          *)

InitEF ==
    /\ caps = [tasks |-> MaxEFTasks, pushes |-> MaxEFTasks, connErrs |-> 0]
    /\ chain \in EFChains
    /\ hooks = <<"EventFilter">>
    /\ processed_filters = <<F_SWAPS, F_EVENTS>>
    /\ scen = GoodScenario
    /\ det = [w \in Evaluations |-> IdleDet]
    /\ fn = IdleFn
    /\ boot = IdleBoot
    /\ req = IdleReq
    /\ rpcClient = "open"
    /\ queue = <<>>
    /\ retry_counts = [h \in Hashes |-> 0]
    /\ \E hs \in [1..MaxEFTasks -> Hashes] :
          /\ hs[1] = "0xabc"
          /\ pushLog = hs
          /\ tasks = [t \in TaskIds |->
                IF t <= MaxEFTasks
                THEN [NewTask(hs[t]) EXCEPT !.pc = "hook", !.hook = 1]
                ELSE IdleTask]
    /\ spawned = MaxEFTasks /\ pushed = MaxEFTasks
    /\ supPc = "brpop"
    /\ pool = 1 /\ poolLock = 0 /\ handles = 1 /\ closed = {}
    /\ redis = 1 /\ dmRedis = 1 /\ detRedis = 0
    /\ detected_pool_addresses = <<>>
    /\ poolCache = <<>>
    /\ htable = <<>>
    /\ zsets = <<>>
    /\ connErrs = 0
    /\ reinserts = [h \in Hashes |-> 0]
    /\ failures = [h \in Hashes |-> 0]
    /\ errPath = <<>> /\ errQueue = <<>>

NextEF ==
    \E t \in TaskIds :
       \/ HooksDone(t)
       \/ EFStartFast(t) \/ DetectorGet(t) \/ DetectorEvaluate(t) \/ EFExecute(t)

SpecEF == InitEF /\ [][NextEF]_vars

-----------------------------------------------------------------------------
(* Runs of the event filter on receipts with missing parts: two workers in *)
(* the hook phase; the shared handle exists, or a reconnect has closed it. *)

InitEdge ==
    /\ caps = [tasks |-> MaxEFTasks, pushes |-> MaxEFTasks, connErrs |-> 0]
    /\ chain \in EdgeChains
    /\ hooks = <<"EventFilter">>
    /\ processed_filters = <<F_SWAPS, F_EVENTS>>
    /\ scen = GoodScenario
    /\ det = [w \in Evaluations |-> IdleDet]
    /\ fn = IdleFn
    /\ boot = IdleBoot
    /\ req = IdleReq
    /\ rpcClient = "open"
    /\ queue = <<>>
    /\ retry_counts = [h \in Hashes |-> 0]
    /\ \E hs \in [1..MaxEFTasks -> Hashes] :
          /\ pushLog = hs
          /\ tasks = [t \in TaskIds |->
                IF t <= MaxEFTasks
                THEN [NewTask(hs[t]) EXCEPT !.pc = "hook", !.hook = 1]
                ELSE IdleTask]
    /\ spawned = MaxEFTasks /\ pushed = MaxEFTasks
    /\ \/ /\ supPc = "brpop"
          /\ pool = 1 /\ closed = {}
       \/ /\ supPc = "sleep5"
          /\ pool = 0 /\ closed = {1}
    /\ poolLock = 0 /\ handles = 1
    /\ redis = 1 /\ dmRedis = 1 /\ detRedis = 0
    /\ detected_pool_addresses = <<>>
    /\ poolCache = <<>>
    /\ htable = <<>>
    /\ zsets = <<>>
    /\ connErrs = 0
    /\ reinserts = [h \in Hashes |-> 0]
    /\ failures = [h \in Hashes |-> 0]
    /\ errPath = <<>> /\ errQueue = <<>>

NextEdge ==
    \E t \in TaskIds :
       \/ HooksDone(t)
       \/ EFNoLogs(t) \/ EFStartFast(t) \/ EFStartConstruct(t) \/ EFPing(t)
       \/ DetectorGet(t) \/ DetectorEvaluate(t) \/ EFExecute(t)

SpecEdge == InitEdge /\ [][NextEdge]_vars

-----------------------------------------------------------------------------
(* Runs of the pool detector alone: two evaluations of one address, each   *)
(* on its own copy of the store, get the same answers from the node and    *)
(* the store.                                                              *)

InitDet ==
    /\ InitCommon
    /\ caps = [tasks |-> 0, pushes |-> 0, connErrs |-> 0]
    /\ chain = CHAIN_MAIN
    /\ hooks = <<"EventFilter">>
    /\ processed_filters = <<F_SWAPS>>
    /\ scen \in Scenarios(MaxDeviations)
    /\ supPc = "brpop"

NextDet == \E w \in Evaluations : Detector(w)

SpecDet == InitDet /\ [][NextDet]_vars

-----------------------------------------------------------------------------
(* Runs of the topic normalizations: a string is drawn and each            *)
(* normalization is applied to it, then to its own result.                 *)

\* characters of the strings drawn: digits, the prefix letter in both cases,
\* hex letters in both cases
TopicChars == {"0", "x", "X", "a", "C"}

\* the strings over TopicChars of length up to n
TopicStrings(n) == UNION { [1..k -> TopicChars] : k \in 0..n }

\* the service's variables stay as constructed in these runs
ServiceUnchanged ==
    UNCHANGED << caps, chain, hooks, processed_filters, scen, det, boot, req,
                 rpcClient, queue, retry_counts, tasks, spawned, supPc, poolVars, redis, dmRedis,
                 detRedis, detected_pool_addresses, kvVars, prodVars, connErrs,
                 histVars, errVars >>

InitFn ==
    /\ det = [w \in Evaluations |-> IdleDet]
    /\ \E x \in TopicStrings(MaxTopicLen) : fn = [IdleFn EXCEPT !.x = x]
    /\ boot = IdleBoot
    /\ req = IdleReq
    /\ rpcClient = "open"
    /\ queue = <<>>
    /\ retry_counts = [h \in Hashes |-> 0]
    /\ tasks = [t \in TaskIds |-> IdleTask]
    /\ spawned = 0
    /\ pool = 0 /\ poolLock = 0 /\ handles = 0 /\ closed = {}
    /\ redis = 0 /\ dmRedis = 0 /\ detRedis = 0
    /\ detected_pool_addresses = <<>>
    /\ poolCache = <<>>
    /\ htable = <<>>
    /\ zsets = <<>>
    /\ pushed = 0 /\ pushLog = <<>> /\ connErrs = 0
    /\ reinserts = [h \in Hashes |-> 0]
    /\ failures = [h \in Hashes |-> 0]
    /\ errPath = <<>> /\ errQueue = <<>>
    /\ caps = [tasks |-> 0, pushes |-> 0, connErrs |-> 0]
    /\ chain = CHAIN_MAIN
    /\ hooks = <<"EventFilter">>
    /\ processed_filters = <<F_SWAPS>>
    /\ scen = GoodScenario
    /\ supPc = "brpop"

\* the value a function is applied to next: the input, then its last result
Operand(results) == IF results = <<>> THEN fn.x ELSE results[Len(results)]

\* lines 207-208 applied once more
NormalizeLogTopic ==
    /\ Len(fn.log) < MaxApply
    /\ fn' = [fn EXCEPT !.log = Append(@, LogTopicStandard(Operand(fn.log)))]
    /\ ServiceUnchanged

\* lines 120-122 applied once more
NormalizeConfigTopic ==
    /\ Len(fn.config) < MaxApply
    /\ fn' = [fn EXCEPT !.config = Append(@, ConfigTopicStandard(Operand(fn.config)))]
    /\ ServiceUnchanged

NextFn == NormalizeLogTopic \/ NormalizeConfigTopic

SpecFn == InitFn /\ [][NextFn]_vars

-----------------------------------------------------------------------------
(* Runs of the score computation: two logs are drawn, each with the block  *)
(* number of its receipt and its log index as the node spells them, and    *)
(* each is scored as lines 174, 209 and 223 do.                            *)

\* blockNumber values drawn: 0, 1, 42, 43
ScoreBlocks ==
    { <<"0","x","0">>, <<"0","x","1">>, <<"0","x","2","a">>, <<"0","x","2","B">> }

\* logIndex values drawn: 0, 3, 999999, 1000000, 1000003
ScoreIndexes ==
    { <<"0","x","0">>, <<"0","x","3">>, <<"0","x","f","4","2","3","f">>,
      <<"0","x","F","4","2","4","0">>, <<"0","x","f","4","2","4","3">> }

InitScore ==
    /\ det = [w \in Evaluations |-> IdleDet]
    /\ \E b1, b2 \in ScoreBlocks, l1, l2 \in ScoreIndexes :
          fn = [IdleFn EXCEPT
                  !.pairs = << [blockNumber |-> b1, logIndex |-> l1],
                               [blockNumber |-> b2, logIndex |-> l2] >>,
                  !.scores = << <<>>, <<>> >>]
    /\ boot = IdleBoot
    /\ req = IdleReq
    /\ rpcClient = "open"
    /\ queue = <<>>
    /\ retry_counts = [h \in Hashes |-> 0]
    /\ tasks = [t \in TaskIds |-> IdleTask]
    /\ spawned = 0
    /\ pool = 0 /\ poolLock = 0 /\ handles = 0 /\ closed = {}
    /\ redis = 0 /\ dmRedis = 0 /\ detRedis = 0
    /\ detected_pool_addresses = <<>>
    /\ poolCache = <<>>
    /\ htable = <<>>
    /\ zsets = <<>>
    /\ pushed = 0 /\ pushLog = <<>> /\ connErrs = 0
    /\ reinserts = [h \in Hashes |-> 0]
    /\ failures = [h \in Hashes |-> 0]
    /\ errPath = <<>> /\ errQueue = <<>>
    /\ caps = [tasks |-> 0, pushes |-> 0, connErrs |-> 0]
    /\ chain = CHAIN_MAIN
    /\ hooks = <<"EventFilter">>
    /\ processed_filters = <<F_SWAPS>>
    /\ scen = GoodScenario
    /\ supPc = "brpop"

\* lines 174, 209, 223: both fields are parsed as hex and the score is formed
ScoreLog(i) ==
    /\ i \in 1..Len(fn.pairs)
    /\ fn.scores[i] = <<>>
    /\ fn' = [fn EXCEPT !.scores[i] =
                << Score(ParseHex(fn.pairs[i].blockNumber),
                         ParseHex(fn.pairs[i].logIndex)) >>]
    /\ ServiceUnchanged

NextScore == \E i \in 1..2 : ScoreLog(i)

SpecScore == InitScore /\ [][NextScore]_vars

-----------------------------------------------------------------------------
(* Properties.                                                             *)

\* the step is task t handling a failure of its hash at line 83
HandlesFailure(t) ==
    /\ tasks[t].tx_hash \in Hashes
    /\ tasks'[t] # tasks[t]
    /\ failures'[tasks[t].tx_hash] = failures[tasks[t].tx_hash] + 1

\* C1: a worker whose processing raised goes on to lpush its hash after the
\* 1st and the 2nd failure of that hash only; on the 3rd and on every later
\* failure it ends without touching the queue; so no hash is ever re-inserted
\* more than 2 times.
C1_RetryCap ==
    [][ /\ \A h \in Hashes : reinserts'[h] <= 2
        /\ \A t \in TaskIds :
              HandlesFailure(t) =>
                 IF failures[tasks[t].tx_hash] < 2
                 THEN tasks'[t].pc = "lpush"
                 ELSE /\ tasks'[t].pc = "done"
                      /\ tasks'[t].fate = "abandoned"
                      /\ queue' = queue
                      /\ reinserts' = reinserts ]_vars

\* a hash failed a 4th time after both of its re-insertions were done
C1_FourthFailure ==
    \E h \in Hashes : failures[h] = 4 /\ reinserts[h] = 2

\* task t is past the hook loop of lines 76-80 and about to return
LoopOver(t) == tasks[t].pc = "hook" /\ tasks[t].hook > Len(hooks)

\* task t is inside the hook loop or a hook
InHooks(t) ==
    tasks[t].pc \in {"hook", "hset", "ef_ping", "ef_get", "ef_eval", "ef_exec"}

\* the step is the fetch of task t answering null
FetchedNull(t) == tasks[t].pc = "fetch" /\ tasks'[t].fate = "null"

\* C2: when the receipt fetch answers null the worker ends at once: it has
\* invoked no hook, retry_counts is unchanged, the queue is neither pushed to
\* nor deleted, nothing is written to the store, and the task is over, so it
\* neither invokes a hook later nor re-inserts the hash.
C2_NullReceipt ==
    [][ \A t \in TaskIds :
          FetchedNull(t) =>
             /\ tasks[t].invoked = <<>>
             /\ tasks'[t].pc = "done"
             /\ retry_counts' = retry_counts
             /\ queue' = queue
             /\ reinserts' = reinserts /\ failures' = failures
             /\ kvVars' = kvVars ]_vars

\* a retried hash got a null receipt while another hash waits in the queue
C2_NullAfterRetry ==
    \E t \in TaskIds :
       /\ tasks[t].fate = "null"
       /\ retry_counts[tasks[t].tx_hash] = 1
       /\ reinserts[tasks[t].tx_hash] = 1
       /\ queue # <<>>

\* the step is a hook of task t raising
HookRaises(t) == tasks'[t].raised \ tasks[t].raised # {}

\* C3: when a hook raises, the worker goes on to the next hook with
\* retry_counts and the queue unchanged; at the end of the loop every hook of
\* the list has been invoked once, in order, whatever raised; and a worker
\* that has invoked a hook never reaches the re-insertion.
C3_HookFailureSwallowed ==
    /\ [](\A t \in TaskIds :
            /\ LoopOver(t) => tasks[t].invoked = hooks
            /\ tasks[t].invoked # <<>> => InHooks(t))
    /\ [][ \A t \in TaskIds :
             HookRaises(t) =>
                /\ tasks'[t].pc = "hook"
                /\ tasks'[t].hook = tasks[t].hook + 1
                /\ retry_counts' = retry_counts
                /\ queue' = queue
                /\ reinserts' = reinserts /\ failures' = failures ]_vars

\* the dumper raised, the event filter after it still ran and stored its event
C3_LaterHookRan ==
    \E t \in TaskIds :
       /\ LoopOver(t)
       /\ tasks[t].raised = {1}
       /\ tasks[t].invoked = <<"ReceiptDumper", "EventFilter">>
       /\ tasks[t].stored = "all"
       /\ retry_counts[tasks[t].tx_hash] = 0

\* C4 as claimed: a worker re-inserts (and has counted a retry) only after an
\* RPC call of its own raised: the receipt fetch or the current-block fetch.
C4_OnlyRpcFailures ==
    \A t \in TaskIds :
       tasks[t].pc = "lpush" => tasks[t].cause \in {"fetch", "blocknum"}

\* the exceptions that reach the handler of line 83: the two RPC fetches, the
\* parse of receipt['blockNumber'] in the probe, the delete of the queue key
EscapingCauses == {"fetch", "blocknum", "parse", "delete"}

\* C4: retry_counts[hash] is incremented and the hash re-inserted only by a
\* worker in which an exception left the try block before the hook loop (the
\* receipt fetch raised, or in the staleness probe the current-block fetch
\* raised, the receipt's blockNumber did not parse, or the delete of the
\* queue raised); a worker that has invoked a hook never increments or
\* re-inserts, whatever fails inside the hook.
C4_RequeueCauses ==
    /\ [](\A t \in TaskIds :
            tasks[t].pc = "lpush" =>
               /\ tasks[t].cause \in EscapingCauses
               /\ tasks[t].invoked = <<>>)
    /\ [][ \A h \in Hashes :
             (retry_counts'[h] # retry_counts[h] \/ reinserts'[h] # reinserts[h]) =>
                \E t \in TaskIds :
                   /\ tasks[t].tx_hash = h
                   /\ tasks[t].invoked = <<>>
                   /\ \/ /\ tasks[t].pc \in {"fetch", "blocknum", "delete"}
                         /\ tasks'[t].pc = "lpush"
                         /\ retry_counts'[h] = retry_counts[h] + 1
                      \/ /\ tasks[t].pc = "lpush"
                         /\ tasks'[t].fate = "requeued"
                         /\ queue' = <<h>> \o queue ]_vars

\* a hash is about to be re-inserted because the delete of the queue raised
C4_RequeueAfterDelete ==
    \E t \in TaskIds :
       /\ tasks[t].pc = "lpush"
       /\ tasks[t].cause = "delete"
       /\ retry_counts[tasks[t].tx_hash] = 1

\* the block of the receipt task t holds
ReceiptBlock(t) == ParseHex(chain[tasks[t].tx_hash].blockNumber)

\* the step empties a queue that held something, other than by a pop
QueueDeleted == queue # <<>> /\ queue' = <<>> /\ spawned' = spawned

\* C5: a worker deletes the queue only in the staleness probe, when the
\* current block is more than 100 past the receipt's block; the delete empties
\* the whole queue and the worker ends having invoked no hook; a worker whose
\* probe found a lag of at most 100 (100 included), or whose probe did not
\* fire, is in the hook loop, deletes nothing and has invoked every hook when
\* the loop is over.
C5_StalenessPurge ==
    /\ [](\A t \in TaskIds :
            /\ tasks[t].pc = "delete" =>
                  /\ tasks[t].current_block_number - ReceiptBlock(t) > 100
                  /\ tasks[t].invoked = <<>>
            /\ InHooks(t) =>
                  \/ tasks[t].current_block_number = 0
                  \/ tasks[t].current_block_number - ReceiptBlock(t) <= 100
            /\ LoopOver(t) => tasks[t].invoked = hooks)
    /\ [][ /\ \A t \in TaskIds :
                (tasks[t].pc = "delete" /\ tasks'[t].fate = "purged") =>
                   queue' = <<>> /\ tasks'[t].pc = "done"
           /\ \A t \in TaskIds :
                (tasks[t].pc = "blocknum" /\ tasks'[t].current_block_number # 0) =>
                   /\ queue' = queue
                   /\ IF tasks'[t].current_block_number - ReceiptBlock(t) > 100
                      THEN tasks'[t].pc = "delete"
                      ELSE tasks'[t].pc = "hook" /\ tasks'[t].hook = 1
           /\ QueueDeleted =>
                \E t \in TaskIds :
                   tasks[t].pc = "delete" /\ tasks'[t].fate = "purged" ]_vars

\* a purge removed the hash another worker had re-inserted: every pushed hash
\* was consumed, one worker re-inserted its hash, one purged, the queue is empty
C5_PurgedARetry ==
    \E t, u \in TaskIds :
       /\ tasks[t].fate = "purged"
       /\ tasks[u].fate = "requeued"
       /\ spawned = pushed
       /\ queue = <<>>

\* the hash field of the block holds the receipt of task t as JSON
ReceiptStored(t) ==
    LET h   == tasks[t].tx_hash
        rc  == chain[h]
        key == block_tx_htable_key(NAMESPACE, ParseHex(rc.blockNumber)) IN
    /\ IsHex(rc.blockNumber)
    /\ key \in DOMAIN htable
    /\ h \in DOMAIN htable[key]
    /\ htable[key][h] = JsonDumps(rc)

\* C6 as claimed: once the hooks have completed for a non-null receipt, the
\* hash block_tx_htable:<namespace>:<block> holds the receipt under tx_hash.
C6_AlwaysStored == \A t \in TaskIds : LoopOver(t) => ReceiptStored(t)

\* the dumper was invoked by task t and did not raise
DumperSucceeded(t) ==
    \E i \in 1..Len(hooks) :
       /\ hooks[i] = "ReceiptDumper"
       /\ i <= Len(tasks[t].invoked)
       /\ i < tasks[t].hook
       /\ i \notin tasks[t].raised

\* C6: for a worker that holds a non-null receipt and was not cut short by a
\* purge, once the ReceiptDumper hook has returned without raising (the
\* receipt's blockNumber parsed and the hset answered), the hash
\* block_tx_htable:<namespace>:<block> holds field tx_hash with the receipt's
\* JSON, and still does when the hooks have completed.
C6_StoredUnlessRaised ==
    \A t \in TaskIds : (InHooks(t) /\ DumperSucceeded(t)) => ReceiptStored(t)

\* the hooks completed without a raise and the receipt is in its block's hash
C6_Stored ==
    \E t \in TaskIds :
       /\ LoopOver(t)
       /\ tasks[t].raised = {}
       /\ ReceiptStored(t)
       /\ htable = ("block_tx_htable:ns:42" :> ("0xabc" :> JsonDumps(R_SWAP)))

\* the members stored at key for log li of task t's receipt under filter fi
MembersOf(t, li, fi, key) ==
    IF key \notin DOMAIN zsets THEN {}
    ELSE { m \in DOMAIN zsets[key] :
             /\ m[2].txHash = tasks[t].tx_hash
             /\ m[2].logIndex = ParseHex(chain[tasks[t].tx_hash].logs[li].logIndex)
             /\ m[2].filterName = processed_filters[fi].filter_name }

\* the sorted set of filter fi for log li's as-received address holds exactly
\* one member for the log, scored block * 1000000 + logIndex
StoredOnce(t, li, fi) ==
    LET rc  == chain[tasks[t].tx_hash]
        log == rc.logs[li]
        key == FormatKey(processed_filters[fi].redis_key_pattern, NAMESPACE, log.address)
        ms  == MembersOf(t, li, fi, key) IN
    /\ Cardinality(ms) = 1
    /\ \A m \in ms :
          /\ m[2].address = Join(log.address)
          /\ m[2]._score = ParseHex(rc.blockNumber) * 1000000 + ParseHex(log.logIndex)
          /\ zsets[key][m] = m[2]._score

\* log li of task t's receipt carries a topic filter fi knows
Matched(t, li, fi) ==
    TopicMatches(processed_filters[fi], chain[tasks[t].tx_hash].logs[li])

\* every command task t holds is for a (log, filter) pair its gate let through
OnlyPassedQueued(t) ==
    \A i \in 1..Len(tasks[t].cmds) : \A m \in DOMAIN tasks[t].cmds[i].mapping :
       \E p \in tasks[t].passed :
          /\ m[2].logIndex = ParseHex(chain[tasks[t].tx_hash].logs[p[1]].logIndex)
          /\ m[2].filterName = processed_filters[p[2]].filter_name

\* the step in which the gate turns down pairs records the address as no pool
RejectionMemoised(t) ==
    \A p \in tasks'[t].rejected \ tasks[t].rejected :
       LET al == Lower(chain[tasks[t].tx_hash].logs[p[1]].address) IN
       /\ al \in DOMAIN detected_pool_addresses'
       /\ detected_pool_addresses'[al] = FALSE

RECURSIVE ApplyCommands(_, _)
\* the sorted sets after the commands cmds ran on zs
ApplyCommands(zs, cmds) ==
    IF cmds = <<>> THEN zs
    ELSE ApplyCommands(ZAdd(zs, cmds[1].key, cmds[1].mapping), Tail(cmds))

\* the lower-case addresses of the logs of receipt rc that the loop looks at
GateAddresses(rc) ==
    { Lower(rc.logs[i].address) : i \in { j \in 1..Len(rc.logs) : LogUsable(rc.logs[j]) } }

\* the commands one processing of hash h queues when the gate answers by memo
CommandsOfOne(h, memo) ==
    EFRun(h, chain[h], 1, 1,
          [cmds |-> <<>>, found |-> 0, passed |-> {}, rejected |-> {}], memo).acc.cmds

\* the sorted sets one processing of hash h, alone, can leave behind: the gate
\* answers each address one way, and the pipeline runs some of its commands
ZsetsOfOne(h) ==
    LET as == GateAddresses(chain[h]) IN
    { ApplyCommands(<<>>, [i \in 1..Len(sub) |-> sub[i]]) :
        sub \in UNION { LET cmds == CommandsOfOne(h, memo) IN
                         { SelectSeq(cmds, LAMBDA c : c.key \in ks) :
                             ks \in SUBSET { cmds[i].key : i \in 1..Len(cmds) } } :
                         memo \in { m \in [as -> BOOLEAN] :
                                      \A a \in as : m[a] => ValidAddress(a) } } }

\* C8 for the sorted sets: when two workers have processed the same receipt,
\* in any interleaving, the sorted sets are as one processing leaves them.
C8_DuplicateLikeOne ==
    ( /\ \A t \in 1..MaxEFTasks : tasks[t].pc = "done"
      /\ \A t \in 1..MaxEFTasks : tasks[t].tx_hash = "0xabc" )
    => zsets \in ZsetsOfOne("0xabc")

\* C9 as claimed, for the handler of a connection error: once brpop has
\* raised a connection error, start_consuming is never left, whatever fails
\* while the pool is closed and the connection re-initialized.
C9_LoopSurvives == ~ (supPc = "crashed" /\ errPath # <<>>)

\* the steps of the reconnect path, in order
ReconnectPath == <<"error", "close", "sleep", "init">>

\* a is the right end of b
IsSuffix(a, b) ==
    Len(a) <= Len(b) /\ SubSeq(b, Len(b) - Len(a) + 1, Len(b)) = a

\* the supervisor is between a connection error and the next brpop
Reconnecting == errPath # <<>> /\ supPc \notin {"brpop", "crashed"}

\* the step is a worker's staleness purge
PurgeStep == \E t \in TaskIds : tasks[t].pc = "delete" /\ tasks'[t].fate = "purged"

\* C10 as claimed: every hash that was in the queue when brpop raised the
\* connection error is still there, in place, when the supervisor is back at
\* brpop.
C10_NothingLost ==
    [][ (Reconnecting /\ supPc' = "brpop") => IsSuffix(errQueue, queue') ]_vars

\* C10: after a connection error of brpop the supervisor closes the shared
\* pool, then sleeps, then re-initializes, then is back at brpop, in this
\* order (a raise while closing or re-initializing ends start_consuming
\* instead); its own steps on this path leave the queue as it is, and until
\* it is back at brpop the only step that takes a hash out of the queue is
\* the staleness purge of a worker still running; every other step leaves
\* all queued hashes in place.
C10_ReconnectOrder ==
    /\ []( /\ supPc = "close" => errPath = SubSeq(ReconnectPath, 1, 1)
           /\ supPc = "sleep5" =>
                 /\ errPath = SubSeq(ReconnectPath, 1, 2)
                 /\ redis \in closed
           /\ (supPc \in {"init", "init_ping", "init_rpc"} /\ errPath # <<>>) =>
                 errPath = SubSeq(ReconnectPath, 1, 3)
           /\ (supPc = "brpop" /\ errPath # <<>>) =>
                 /\ errPath = ReconnectPath
                 /\ pool # 0 /\ redis = pool /\ redis \notin closed )
    /\ [][ Reconnecting =>
             /\ supPc' # supPc => queue' = queue
             /\ (supPc = "close" /\ supPc' = "sleep5") =>
                   (pool' = 0 /\ pool \in closed')
             /\ ~ PurgeStep => IsSuffix(queue, queue') ]_vars

\* the supervisor is back at brpop on a new handle after a reconnect, and the
\* hashes queued at the error are all still queued
C10_Resumed ==
    /\ supPc = "brpop"
    /\ errPath = ReconnectPath
    /\ errQueue # <<>>
    /\ IsSuffix(errQueue, queue)
    /\ closed = {1} /\ pool = 2 /\ redis = 2

\* C11: the supervisor does not wait for workers: whenever it is at brpop and
\* the queue holds a hash, the pop and the spawn of the next worker can
\* happen, however many workers are in flight; the pop step starts the new
\* worker at its receipt fetch, leaves every earlier worker where it is and
\* leaves the supervisor at brpop.
C11_SpawnWithoutWaiting ==
    /\ []( (supPc = "brpop" /\ queue # <<>> /\ spawned < caps.tasks)
             => ENABLED SupBrpopItem )
    /\ [][ spawned' # spawned =>
             /\ spawned' = spawned + 1
             /\ supPc = "brpop" /\ supPc' = "brpop"
             /\ tasks'[spawned'].pc = "fetch"
             /\ tasks'[spawned'].tx_hash = queue[Len(queue)]
             /\ \A t \in TaskIds \ {spawned'} : tasks'[t] = tasks[t] ]_vars

\* every worker the run spawns is in flight at once, the first still at its
\* receipt fetch when the last was spawned
C11_AllInFlight ==
    /\ spawned = caps.tasks
    /\ spawned > 1
    /\ \A t \in 1..spawned : InFlight(t)
    /\ tasks[1].pc = "fetch"

\* the hashes popped so far, in the order of the pops: worker n holds the
\* hash of the n-th pop
PopLog == [n \in 1..spawned |-> tasks[n].tx_hash]

Reverse(s) == [i \in 1..Len(s) |-> s[Len(s) + 1 - i]]

\* no hash was re-inserted and no staleness purge deleted the queue
NoRetryNoPurge ==
    /\ \A h \in Hashes : reinserts[h] = 0
    /\ \A t \in TaskIds : tasks[t].fate # "purged"

\* C12: the queue is FIFO: as long as nothing was re-inserted or purged, the
\* hashes popped so far followed by the hashes waiting, from the right end of
\* the list to the left, are the hashes pushed, in the order of the pushes;
\* so the n-th pop returns the n-th hash pushed.
C12_Fifo ==
    NoRetryNoPurge =>
       /\ pushLog = PopLog \o Reverse(queue)
       /\ \A n \in 1..spawned : tasks[n].tx_hash = pushLog[n]

\* two different hashes were pushed and both popped, the first pushed first
C12_PoppedInPushOrder ==
    /\ NoRetryNoPurge
    /\ pushLog = <<"0xdef", "0xabc">>
    /\ spawned = 2
    /\ PopLog = <<"0xdef", "0xabc">>
    /\ queue = <<>>

\* the step re-inserts hash h (the lpush of line 88 answered)
Reinserts(h) == reinserts'[h] = reinserts[h] + 1

\* C13 as claimed: a re-inserted hash is ahead of the hashes already waiting:
\* it is put at the end of the list that brpop takes from.
C13_RetryAhead ==
    [][ \A h \in Hashes : Reinserts(h) => queue' = Append(queue, h) ]_vars

\* C13: a re-inserted hash is put at the left end of the list, behind every
\* hash waiting at that moment, like a hash a producer pushes; a pop takes
\* the right end only and leaves the rest in place, so the hashes that were
\* waiting are popped before the re-inserted one.
C13_RetryBehind ==
    [][ /\ \A h \in Hashes : Reinserts(h) => queue' = <<h>> \o queue
        /\ spawned' # spawned =>
              /\ tasks'[spawned'].tx_hash = queue[Len(queue)]
              /\ queue' = SubSeq(queue, 1, Len(queue) - 1) ]_vars

\* 0xabc was popped, failed and was re-inserted while 0xdef waited: 0xdef is
\* at the right end, the next to be popped, and 0xabc behind it
C13_WaitingHashFirst ==
    /\ pushLog = <<"0xabc", "0xdef">>
    /\ spawned = 1
    /\ tasks[1].tx_hash = "0xabc" /\ tasks[1].fate = "requeued"
    /\ reinserts["0xabc"] = 1
    /\ queue = <<"0xabc", "0xdef">>

\* C14: for every hash, retry_counts[hash] is within 0..2 in every state and
\* no step decreases it; a step that changes it adds exactly 1.
C14_CountMonotoneBounded ==
    /\ [](\A h \in Hashes : retry_counts[h] \in 0..MAX_RETRIES)
    /\ [][ \A h \in Hashes :
             /\ retry_counts'[h] >= retry_counts[h]
             /\ retry_counts'[h] <= retry_counts[h] + 1 ]_vars

\* a hash whose count is 2 failed a third time and was given up: the count is
\* still 2
C14_CountStaysAtCap ==
    \E h \in Hashes :
       /\ retry_counts[h] = MAX_RETRIES
       /\ failures[h] = 3
       /\ \E t \in TaskIds : tasks[t].tx_hash = h /\ tasks[t].fate = "abandoned"

\* the workers of hash h that counted a retry and have not re-inserted: they
\* are at the lpush of line 88, or their lpush raised
CountedNotReinserted(h) ==
    { t \in TaskIds :
        /\ tasks[t].tx_hash = h
        /\ tasks[t].pc = "lpush" \/ tasks[t].fate = "lost" }

\* C15: under every interleaving of workers failing on the same hash, the
\* test of the count and its increment happen in one step of the failing
\* worker, no increment is lost (the count is the number of failures handled,
\* up to the cap of 2, and each counted retry belongs to one worker that
\* re-inserts, is about to, or failed to), and the hash is re-inserted at
\* most 2 times in all.
C15_CountsGuarded ==
    /\ [](\A h \in Hashes :
            /\ retry_counts[h] =
                  (IF failures[h] < MAX_RETRIES THEN failures[h] ELSE MAX_RETRIES)
            /\ retry_counts[h] = reinserts[h] + Cardinality(CountedNotReinserted(h))
            /\ reinserts[h] <= 2)
    /\ [][ \A t \in TaskIds :
             HandlesFailure(t) =>
                LET h == tasks[t].tx_hash IN
                IF retry_counts[h] < 2
                THEN retry_counts'[h] = retry_counts[h] + 1 /\ tasks'[t].pc = "lpush"
                ELSE retry_counts'[h] = retry_counts[h] /\ tasks'[t].pc = "done" ]_vars

\* two deliveries of one hash failed while both were in flight: both workers
\* are at the lpush of line 88 and the count is 2
C15_TwoFailedAtOnce ==
    \E t, u \in TaskIds :
       /\ t # u
       /\ tasks[t].pc = "lpush" /\ tasks[u].pc = "lpush"
       /\ tasks[t].tx_hash = tasks[u].tx_hash
       /\ retry_counts[tasks[t].tx_hash] = 2
       /\ reinserts[tasks[t].tx_hash] = 0

\* the store's strings as the n-th call of evaluation w found them
CacheBefore(w, n) == IF n = 1 THEN <<>> ELSE det[w].log[n - 1].cache

\* the calls of evaluation w that have returned
Calls(w) == 1..Len(det[w].log)

\* the n-th call of evaluation w found no usable verdict and ran the checks
\* to a verdict
Evaluated(w, n) == ~ det[w].log[n].hit /\ ~ det[w].log[n].raised

\* C16: a call that finds a verdict under uniswap_v3_pool_check:<checksum
\* address> issues no RPC call, and when the lookup answers returns the
\* stored boolean and leaves the store as it is; a call that returns a
\* verdict without a cache hit has issued, as its last store command, the SET
\* of that verdict as JSON under the key with ex=3600, and when the store
\* accepted the command the key holds the verdict with a TTL of 3600.
C16_CacheFirst ==
    \A w \in Evaluations : \A n \in Calls(w) :
       LET o   == det[w].log[n]
           key == PoolCheckKey(scen.address)
           old == CacheBefore(w, n) IN
       /\ (key \in DOMAIN old) =>
             /\ o.rpc = <<>>
             /\ "get_check" \notin scen.kvFail =>
                   /\ o.hit
                   /\ o.result = JsonLoads(old[key].value)
                   /\ o.result \in BOOLEAN
                   /\ o.kv = << <<"GET", key>> >>
                   /\ o.cache = old
       /\ o.hit => key \in DOMAIN old
       /\ Evaluated(w, n) =>
             /\ o.kv[Len(o.kv)] = <<"SET", key, JsonDumps(o.result), 3600>>
             /\ "set_check" \notin scen.kvFail =>
                   /\ key \in DOMAIN o.cache
                   /\ o.cache[key] = [value |-> JsonDumps(o.result), ex |-> 3600]

\* a first call ran the checks, found an invalid fee tier and stored false;
\* the second call returned the stored false without any RPC call
C16_FalseVerdictServed ==
    \E w \in Evaluations :
       /\ Len(det[w].log) = 2
       /\ Evaluated(w, 1)
       /\ det[w].log[1].result = FALSE /\ det[w].log[1].failed = "fee"
       /\ det[w].log[2].hit
       /\ det[w].log[2].result = FALSE
       /\ det[w].log[2].rpc = <<>>

\* the n-th call of evaluation w met an exception: the address did not
\* normalize, the lookup of the verdict raised, get_code raised, a view call
\* raised, or a store command of the metadata fetch raised
MetException(w, n) ==
    LET o == det[w].log[n] IN
    \/ o.failed \in {"address", "lookup"}
    \/ o.failed = "code" /\ scen.code1 = RAISES
    \/ o.failed = "selectors" /\ scen.code2 = RAISES
    \/ o.failed = "metadata" /\ o.metaFrom = "-"

\* C17 for a store that accepts the write of the result: a call that met an
\* exception anywhere returns false, raises nothing to its caller, and
\* leaves false cached under uniswap_v3_pool_check:<checksum address>.
C17_ExceptionGivesFalse ==
    \A w \in Evaluations : \A n \in Calls(w) :
       LET o   == det[w].log[n]
           key == PoolCheckKey(scen.address) IN
       (MetException(w, n) /\ "set_check" \notin scen.kvFail) =>
          /\ ~ o.raised
          /\ o.result = FALSE
          /\ key \in DOMAIN o.cache
          /\ JsonLoads(o.cache[key].value) = FALSE

\* the checks of lines 153-195 in their order, after the lookup of line 147
Stages ==
    <<"lookup", "code", "selectors", "metadata", "fee", "tick_spacing", "weth">>

StageNo(check) == CHOOSE i \in 1..Len(Stages) : Stages[i] = check

\* the stage that issues the i-th RPC call of an evaluation: the two
\* get_code calls belong to the code and the selector check, every later call
\* to the metadata fetch
RpcStage(i) == IF i = 1 THEN 2 ELSE IF i = 2 THEN 3 ELSE 4

\* the RPC calls of a metadata fetch that reaches the view calls and whose
\* k-th view call is the last one made
ViewCalls(k) == SubSeq(PoolViews, 1, k)

\* scen passes check number i of Stages
Passes(i) ==
    CASE i = 2 -> has_contract_code(scen.code1)
      [] i = 3 -> has_required_function_signatures(scen.code2)
      [] i = 5 -> is_valid_fee_tier(scen.fee)
      [] i = 6 -> is_valid_tick_spacing(scen.fee, scen.tick_spacing)
      [] i = 7 -> scen.token0 = WETH \/ scen.token1 = WETH
      [] OTHER -> TRUE

SameTopic(a, b) == Lower(HexBody(a)) = Lower(HexBody(b))

\* C20 (as claimed): the normalization of a log's topics[0] and the one of
\* configured topics yield the same string, so after a process_receipt whose
\* pipeline ran every command, a decodable log that passed the gate of a
\* filter is stored under that filter exactly when its topics[0] equals the
\* topic of an event of the filter ignoring letter case and the 0x prefix.
C20_TopicsCompareNormalized ==
    \A t \in TaskIds :
       (LoopOver(t) /\ tasks[t].stored = "all") =>
          \A p \in tasks[t].passed :
             LET log == chain[tasks[t].tx_hash].logs[p[1]]
                 f   == processed_filters[p[2]] IN
             /\ LogTopicStandard(log.topics[1]) = ConfigTopicStandard(log.topics[1])
             /\ log.decodable =>
                   ( StoredOnce(t, p[1], p[2])
                     <=> \E e \in DOMAIN f.events_by_topic : SameTopic(log.topics[1], e) )

\* C21: both topic normalizations are idempotent: applied to its own result,
\* the normalization of a log's topic (lines 207-208) returns that result,
\* and so does the normalization of a configured topic (lines 120-122).
C21_Idempotent ==
    /\ \A i \in 2..Len(fn.log) : fn.log[i] = fn.log[1]
    /\ \A i \in 2..Len(fn.config) : fn.config[i] = fn.config[1]

\* the string X0a was normalized twice each way: the log side gave 0xa both
\* times, the configuration side 0xx0a both times
C21_NormalizedTwice ==
    /\ fn.x = <<"X", "0", "a">>
    /\ fn.log = << <<"0", "x", "a">>, <<"0", "x", "a">> >>
    /\ fn.config = << <<"0", "x", "x", "0", "a">>, <<"0", "x", "x", "0", "a">> >>

\* the receipt gives process_receipt nothing to do: no key "logs", an empty
\* list of logs, or no blockNumber or transactionIndex
NothingToDo(rc) ==
    NoLogs(rc) \/ rc.blockNumber = NONE \/ rc.transactionIndex = NONE

\* C22: for a receipt whose logs are absent or empty, or whose blockNumber or
\* transactionIndex is missing, every step of process_receipt leaves the
\* store's data and the gate's memo as they are and never enters a
\* classification call or the pipeline, and the call returns without raising.
C22_NoOp ==
    [][ \A t \in TaskIds :
          ( /\ tasks[t].tx_hash \in Hashes
            /\ NothingToDo(chain[tasks[t].tx_hash])
            /\ tasks'[t] # tasks[t] ) =>
             /\ kvVars' = kvVars
             /\ detected_pool_addresses' = detected_pool_addresses
             /\ tasks'[t].pc \notin {"ef_get", "ef_eval", "ef_exec"}
             /\ tasks'[t].raised = {}
             /\ tasks'[t].passed = {} /\ tasks'[t].rejected = {} ]_vars

\* the workers of a receipt without blockNumber and of one without
\* transactionIndex, both carrying a Swap of the pool, have returned from the
\* event filter, one of them having constructed the shared handle for it:
\* nothing was classified and the store is empty
C22_BothReturned ==
    /\ chain["0xabc"] = R_NOBLK
    /\ \A t \in 1..MaxEFTasks :
          /\ tasks[t].pc = "done"
          /\ tasks[t].tx_hash = IF t = 1 THEN "0xabc" ELSE "0xdef"
    /\ handles = 2
    /\ zsets = <<>> /\ poolCache = <<>> /\ detected_pool_addresses = <<>>

\* the gate was asked about log li of task t's receipt for every filter
Examined(t, li) ==
    \A fi \in 1..Len(processed_filters) :
       <<li, fi>> \in tasks[t].passed \cup tasks[t].rejected

\* C23: a log without address, without topics or without logIndex is passed
\* over (the gate is not asked about it and nothing is queued for it) and
\* the hook does not raise; every other log of the receipt is still examined
\* and, when it passed the gate of a filter that knows its topic and decodes,
\* it is stored once the pipeline ran every command.
C23_BadLogSkipped ==
    \A t \in TaskIds :
       (LoopOver(t) /\ tasks[t].stored \in {"all", "none"}
                    /\ ~ NothingToDo(chain[tasks[t].tx_hash])) =>
          LET logs == chain[tasks[t].tx_hash].logs IN
          /\ tasks[t].raised = {}
          /\ \A li \in 1..Len(logs) :
                IF LogUsable(logs[li])
                THEN /\ Examined(t, li)
                     /\ \A fi \in 1..Len(processed_filters) :
                           ( /\ <<li, fi>> \in tasks[t].passed
                             /\ Matched(t, li, fi)
                             /\ logs[li].decodable )
                           => (tasks[t].stored = "all" /\ StoredOnce(t, li, fi))
                ELSE \A fi \in 1..Len(processed_filters) :
                        <<li, fi>> \notin tasks[t].passed \cup tasks[t].rejected
          /\ \A key \in DOMAIN zsets : \A m \in DOMAIN zsets[key] :
                m[2].txHash = tasks[t].tx_hash =>
                   \E li \in 1..Len(logs) :
                      /\ LogUsable(logs[li])
                      /\ m[2].logIndex = ParseHex(logs[li].logIndex)

\* the receipt with a log without address, one without topics and one
\* without logIndex went through: its fourth log, a Swap of the pool, is
\* stored under both filters with score 42000003
C23_FourthLogStored ==
    \E t \in TaskIds :
       /\ LoopOver(t)
       /\ chain[tasks[t].tx_hash] = R_GAPS
       /\ tasks[t].stored = "all"
       /\ tasks[t].raised = {}
       /\ tasks[t].passed = {<<4, 1>>, <<4, 2>>}
       /\ zsets["swaps:ns:0xAb"][Member(F_SWAPS, tasks[t].tx_hash, R_GAPS, R_GAPS.logs[4])]
             = 42000003
       /\ "events:ns:0xAb" \in DOMAIN zsets

\* the callers of get_pool that are constructing: between from_url and the
\* answer of the ping
Constructing ==
    { t \in TaskIds : tasks[t].pc = "ef_ping" }
       \cup (IF supPc = "init_ping" THEN {-1} ELSE {})

\* C24: the shared handle is constructed lazily and under mutual exclusion:
\* a pool is constructed only by a get_pool call that finds no handle and
\* holds the lock, at most one caller is constructing at a time, and the
\* pools constructed so far are the closed ones plus the one handle that
\* exists, if any.  Every get_pool call that returns gives its caller the
\* value of RedisPool._pool, which, unless close() has reset it meanwhile, is
\* that one handle.  The constructing caller awaits a PING of the new handle,
\* and when the PING fails get_pool raises to that caller (the supervisor's
\* _init ends with the exception).
C24_Singleton ==
    /\ [](/\ Cardinality(Constructing) <= 1
          /\ Constructing # {} => Constructing = {poolLock}
          /\ handles = Cardinality(closed) + (IF pool # 0 THEN 1 ELSE 0)
          /\ pool # 0 => (pool = handles /\ pool \notin closed))
    /\ [][ /\ handles' # handles =>
                /\ pool = 0 /\ poolLock = 0
                /\ handles' = handles + 1 /\ pool' = handles'
                /\ Constructing' = {poolLock'}
           /\ (supPc \in {"init", "init_ping"} /\ supPc' = "init_rpc") => redis' = pool
           /\ (supPc = "init_ping" /\ supPc' # supPc) =>
                (supPc' = "init_rpc" \/ supPc' = "crashed")
           /\ detRedis' # detRedis => detRedis' = pool ]_vars

\* after a reconnect closed handle 1, a worker's event filter found no handle
\* and constructed handle 2; while it still awaits the PING, the supervisor's
\* _init has asked for the handle too and received the same handle 2
C24_SameHandle ==
    \E t \in TaskIds :
       /\ tasks[t].pc = "ef_ping" /\ poolLock = t
       /\ closed = {1} /\ handles = 2 /\ pool = 2
       /\ redis = 2 /\ supPc = "brpop"

\* C25 (as claimed): once the service shuts down, on an interrupt or after
\* start_consuming ended with an exception, no further hash is popped; and
\* when the shutdown is over the RPC client is closed, the pool that existed
\* is closed and the shared handle RedisPool._pool is unset.
C25_ShutdownCloses ==
    /\ [][ (supPc \in ShutdownPcs) => (spawned' = spawned /\ supPc' \in ShutdownPcs) ]_vars
    /\ [](supPc = "exited" =>
             /\ rpcClient = "closed"
             /\ pool = 0
             /\ closed = 1..handles)

\* what became of the filters of the configuration
PassFailed(i) == boot.prepared[i] \notin {"prepared", "skipped"}

Processed(name) ==
    \E k \in 1..Len(processed_filters) : processed_filters[k].filter_name = name

\* C26: when the event filter has been constructed, a filter none of whose
\* configured topics matches an event of its ABI is absent from
\* processed_filters and the filters after it are still prepared; a filter
\* whose ABI file is missing or is not JSON is absent too, and its failure
\* has surfaced: the construction ended with an error.
C26_FailureSurfaces ==
    (boot.pc # "new" /\ boot.prepared # <<>>) =>
        \A i \in 1..Len(boot.filters) :
            /\ Processed(boot.filters[i].filter_name) <=> boot.prepared[i] = "prepared"
            /\ PassFailed(i) => boot.error # <<>>

\* C26, the part the code keeps: whatever became of a filter, the passes of
\* the filters after it are made, a filter without a matching topic or with
\* an unusable ABI file is absent, and every other filter is present with the
\* events of its ABI that its topics name
C26_OthersPrepared ==
    (boot.pc # "new" /\ boot.prepared # <<>>) =>
        /\ Len(boot.prepared) = Len(boot.filters)
        /\ \A i \in 1..Len(boot.filters) :
              LET fd == boot.filters[i]
                  usable == AbiFiles[fd.abi_path].exists /\ AbiFiles[fd.abi_path].valid
                  named == IF usable
                           THEN { k \in 1..Len(ABI_POOL) :
                                    /\ ABI_POOL[k].type = "event"
                                    /\ ~ ABI_POOL[k].broken
                                    /\ \E j \in 1..Len(fd.event_topics) :
                                          Lower(HexBody(fd.event_topics[j])) = ABI_POOL[k].hash }
                           ELSE {}
              IN /\ Processed(fd.filter_name) <=> named # {}
                 /\ \A k \in 1..Len(processed_filters) :
                       processed_filters[k].filter_name = fd.filter_name =>
                          { processed_filters[k].events_by_topic[t] :
                               t \in DOMAIN processed_filters[k].events_by_topic }
                             = { ABI_POOL[n].name : n \in named }

\* a filter without a match, then one that is prepared
C26_SkippedThenPrepared ==
    /\ boot.pc = "constructed"
    /\ boot.filters = <<FD_BURNS, FD_EVENTS>>
    /\ boot.prepared = <<"skipped", "prepared">>
    /\ processed_filters = <<F_EVENTS>>

\* the configured classes, and the first entry that does not load
ClassNames(preloaders) == [i \in 1..Len(preloaders) |-> preloaders[i].class_name]

IsPrefix(s, t) == Len(s) <= Len(t) /\ s = SubSeq(t, 1, Len(s))

FirstFailing(preloaders) ==
    { i \in 1..Len(preloaders) :
        /\ ~ preloaders[i].loads
        /\ \A j \in 1..(i - 1) : preloaders[j].loads }

\* C28, the states: the hooks are instantiated in the order of the
\* configuration list; when every entry loads, the hook list is the list of their classes in that
\* order, and when one fails, construction ends with the error of the first
\* that failed, no hook list is kept and the service never starts.  A worker
\* invokes the hooks in the order of the list, one at a time: a hook is
\* started only from the head of the loop, where the one before has returned
\* or raised, and it is the next of the list.
C28_LoadedInOrder ==
    boot.pc \notin {"new"} =>
        /\ IsPrefix(boot.instantiated, ClassNames(boot.preloaders))
        /\ IF FirstFailing(boot.preloaders) = {}
           THEN /\ boot.pc = "constructed"
                /\ boot.error = <<>>
                /\ hooks = ClassNames(boot.preloaders)
                /\ boot.instantiated = hooks
           ELSE /\ boot.pc = "failed"
                /\ hooks = <<>>
                /\ \A i \in FirstFailing(boot.preloaders) :
                      /\ boot.error = <<"ValueError", boot.preloaders[i].class_name>>
                      /\ Len(boot.instantiated) = i - 1
                /\ supPc = "exited"
                /\ spawned = 0
        /\ \A t \in TaskIds : IsPrefix(tasks[t].invoked, hooks)

\* the step starts a hook of task t only from the head of the loop
C28_OneAtATime ==
    \A t \in TaskIds :
        (tasks'[t].invoked # tasks[t].invoked /\ tasks'[t].pc # "done") =>
            /\ tasks[t].pc = "hook"
            /\ tasks[t].hook = Len(tasks[t].invoked) + 1
            /\ tasks'[t].invoked = Append(tasks[t].invoked, hooks[tasks[t].hook])

\* C28: the hooks are loaded in the order of the configuration or not at
\* all, and a worker invokes them in that order, one after the other.
C28_HooksInOrder == [] C28_LoadedInOrder /\ [][C28_OneAtATime]_vars

\* the list in the order opposite to the default one: the event filter was
\* invoked first and the receipt dumper is running
C28_FilterThenDumper ==
    /\ boot.preloaders = <<PL_FILTER, PL_DUMPER>>
    /\ hooks = <<"EventFilter", "ReceiptDumper">>
    /\ \E t \in TaskIds :
          /\ tasks[t].invoked = <<"EventFilter", "ReceiptDumper">>
          /\ tasks[t].pc = "hset"

\* C27: a call of the RPC facade issues at most config.retry + 1 POSTs.  Only
\* a transport error is followed by another POST, after one delay of fixed
\* length, and once the attempts are used up it yields null.  A response
\* with an RPC error object, or with neither error nor result, ends the call
\* at once with null, whatever attempts are left.
C27_BoundedRetries ==
    /\ req.posts <= req.retry + 1
    /\ \A i \in 1..(Len(req.answers) - 1) : req.answers[i] = "transport"
    /\ Len(req.delays) = req.posts - (IF req.calls = 0 THEN 0 ELSE 1)
    /\ \A i \in 1..Len(req.delays) : req.delays[i] = RETRY_DELAY
    /\ req.pc = "post" => Len(req.answers) = req.posts - 1
    /\ req.pc = "sleep" =>
          /\ Len(req.answers) = req.posts
          /\ req.answers[req.posts] = "transport"
          /\ req.posts <= req.retry
    /\ req.pc = "returned" =>
          /\ Len(req.answers) = req.posts
          /\ req.answers[req.posts] = "transport" => req.posts = req.retry + 1
          /\ req.answers[req.posts] # "result" => req.result = <<>>
          /\ req.answers[req.posts] = "result" => req.result # <<>>

\* an error object in the response to the second POST of a call that had
\* attempts left: the call is over with null
C27_RpcErrorEndsCall ==
    /\ req.retry = MaxRetry
    /\ req.pc = "returned"
    /\ req.answers = <<"transport", "error">>
    /\ req.delays = <<RETRY_DELAY>>
    /\ req.result = <<>>

\* the two logs drawn, as numbers
BlockOf(i) == ParseHex(fn.pairs[i].blockNumber)
IndexOf(i) == ParseHex(fn.pairs[i].logIndex)
LexLess(i, j) ==
    \/ BlockOf(i) < BlockOf(j)
    \/ BlockOf(i) = BlockOf(j) /\ IndexOf(i) < IndexOf(j)

\* C29: the score of a log is block_number * 1000000 + log_index; of two
\* logs with log_index below 1000000 that differ in block number or in log
\* index the scores differ, and one score is below the other exactly when its
\* (block_number, log_index) comes first: lower block, or the same block and
\* lower index.
C29_ScoreOrdersLogs ==
    /\ \A i \in 1..Len(fn.scores) :
          fn.scores[i] # <<>> =>
              fn.scores[i][1] = BlockOf(i) * 1000000 + IndexOf(i)
    /\ \A i, j \in 1..Len(fn.scores) :
          ( /\ fn.scores[i] # <<>> /\ fn.scores[j] # <<>>
            /\ IndexOf(i) < 1000000 /\ IndexOf(j) < 1000000 ) =>
              /\ (BlockOf(i) # BlockOf(j) \/ IndexOf(i) # IndexOf(j))
                    => fn.scores[i][1] # fn.scores[j][1]
              /\ fn.scores[i][1] < fn.scores[j][1] <=> LexLess(i, j)

\* the last index below the bound in block 42 and the first log of block 43
C29_BlockBoundaryOrdered ==
    /\ Len(fn.pairs) = 2
    /\ BlockOf(1) = 42 /\ IndexOf(1) = 999999
    /\ BlockOf(2) = 43 /\ IndexOf(2) = 0
    /\ fn.scores = << <<42999999>>, <<43000000>> >>

\* pair p of task t is a log with a known topic that does not decode
FailedToDecode(t, p) ==
    /\ Matched(t, p[1], p[2])
    /\ ~ chain[tasks[t].tx_hash].logs[p[1]].decodable

\* C30: when a log that passed the gate and carries a known topic fails to
\* decode, process_receipt does not raise, no member is stored for that log,
\* and every other log of the receipt that passed the gate, carries a known
\* topic and decodes is still queued and, once the pipeline ran every
\* command, stored.
C30_DecodeFailureSkipped ==
    \A t \in TaskIds :
       (LoopOver(t) /\ \E p \in tasks[t].passed : FailedToDecode(t, p)) =>
          LET rc == chain[tasks[t].tx_hash] IN
          /\ tasks[t].raised = {}
          /\ \A p \in tasks[t].passed :
                Matched(t, p[1], p[2]) =>
                   IF rc.logs[p[1]].decodable
                   THEN /\ tasks[t].stored # "none"
                        /\ tasks[t].stored = "all" => StoredOnce(t, p[1], p[2])
                   ELSE MembersOf(t, p[1], p[2],
                                  FormatKey(processed_filters[p[2]].redis_key_pattern,
                                            NAMESPACE, rc.logs[p[1]].address)) = {}

\* the Swap before and the Swap after the undecodable one are the two members
\* of the pool's sorted set of each filter
C30_NeighboursStored ==
    \E t \in TaskIds :
       /\ LoopOver(t)
       /\ chain[tasks[t].tx_hash] = R_UNDEC
       /\ tasks[t].stored = "all"
       /\ tasks[t].passed = (1..3) \X (1..2)
       /\ DOMAIN zsets["swaps:ns:0xAb"] =
             { Member(F_SWAPS, tasks[t].tx_hash, R_UNDEC, R_UNDEC.logs[1]),
               Member(F_SWAPS, tasks[t].tx_hash, R_UNDEC, R_UNDEC.logs[3]) }
       /\ zsets["swaps:ns:0xAb"][Member(F_SWAPS, tasks[t].tx_hash, R_UNDEC, R_UNDEC.logs[3])]
             = 42000002

\* the keys of the commands task t holds differ from one another
OneCommandPerKey(t) ==
    \A i, j \in 1..Len(tasks[t].cmds) :
       tasks[t].cmds[i].key = tasks[t].cmds[j].key => i = j

\* task t is executing its pipeline: the log loop is over, every usable log
\* was put to the gate of every filter, and something matched
C31_AfterTheLoop ==
    \A t \in TaskIds :
       /\ tasks[t].pc = "ef_exec" =>
             /\ tasks[t].cmds # <<>>
             /\ tasks[t].found > 0
             /\ OneCommandPerKey(t)
             /\ \A li \in 1..Len(chain[tasks[t].tx_hash].logs) :
                   LogUsable(chain[tasks[t].tx_hash].logs[li]) => Examined(t, li)
       /\ (InHooks(t) /\ tasks[t].stored = "failed") => tasks[t].raised = {}

\* a step writes a sorted set only as the next command of a pipeline, and a
\* pipeline that failed ends with the hook returning: nothing is raised, and
\* the queue and the retry counts stay as they are
C31_OnlyThePipelineWrites ==
    /\ zsets' # zsets =>
          \E t \in TaskIds :
             /\ tasks[t].pc = "ef_exec"
             /\ zsets' = ZAdd(zsets, tasks[t].cmds[1].key, tasks[t].cmds[1].mapping)
    /\ \A t \in TaskIds :
          (tasks[t].pc = "ef_exec" /\ tasks'[t].pc # "ef_exec"
                                   /\ tasks'[t].stored = "failed") =>
             /\ tasks'[t].pc = "hook"
             /\ tasks'[t].hook = tasks[t].hook + 1
             /\ tasks'[t].raised = tasks[t].raised
             /\ queue' = queue
             /\ retry_counts' = retry_counts

\* C31: the sorted-set writes of a receipt are gathered per key during the
\* log loop and run as one pipeline after the last log was examined, none
\* when nothing matched; a pipeline that fails leaves process_receipt
\* returning normally, so nothing is raised to the worker and the hash is
\* not re-inserted.
C31_PipelineAfterLoop == [] C31_AfterTheLoop /\ [][C31_OnlyThePipelineWrites]_vars

\* the pipeline of a receipt with two keys ran its first command and failed
\* the second: the hook has returned and the first key's set is written
C31_FailedPipelineReturned ==
    \E t \in TaskIds :
       /\ LoopOver(t)
       /\ chain[tasks[t].tx_hash] = R_XYX
       /\ tasks[t].stored = "failed"
       /\ tasks[t].raised = {}
       /\ Cardinality(DOMAIN zsets) = 1
       /\ retry_counts = [h \in Hashes |-> 0]

\* the hook list holds a receipt dumper, the one hook that defines init()
HasDumper == \E i \in 1..Len(hooks) : hooks[i] = "ReceiptDumper"

\* _init has acquired the handle and called init() on the hooks: the handle
\* is the shared one, and the dumper's data manager holds it wherever the
\* dumper stands in the list
C32_HooksInitialised ==
    supPc = "init_rpc" =>
        /\ redis # 0 /\ redis = pool
        /\ HasDumper => dmRedis = redis
        /\ ~ HasDumper => dmRedis = 0

\* _init goes from the handle to the hooks to the RPC client and only then
\* to the loop; it leaves that path only by raising, which ends
\* start_consuming for good
C32_InitPath ==
    /\ (supPc \in {"init", "init_ping"} /\ supPc' \notin {"init", "init_ping"}) =>
          /\ supPc' \in {"init_rpc", "crashed"}
          /\ supPc' = "crashed" => (redis' = redis /\ dmRedis' = dmRedis)
    /\ (supPc = "init_rpc" /\ supPc' # supPc) => supPc' \in {"brpop", "crashed"}
    /\ (supPc' = "brpop" /\ supPc # "brpop") => supPc \in {"init_rpc", "sleep2"}
    /\ supPc = "crashed" => (supPc' = "crashed" /\ spawned' = spawned)

\* C32: a hook without init() does not abort the initialization: init() of
\* every other hook is still called and the RPC client is initialized before
\* the loop starts; a handle that cannot be acquired, or an RPC client that
\* fails to initialize, is raised to the caller and the service does not
\* consume.
C32_MissingInitNotFatal == [] C32_HooksInitialised /\ [][C32_InitPath]_vars

\* the event filter, which has no init(), stands before the dumper: the
\* dumper was initialized all the same and the loop is consuming
C32_DumperAfterFilter ==
    /\ hooks = <<"EventFilter", "ReceiptDumper">>
    /\ supPc = "brpop"
    /\ connErrs = 0
    /\ redis = 1 /\ dmRedis = 1 /\ pool = 1

\* the values of a sequence
Range(s) == { s[i] : i \in 1..Len(s) }

\* the defaults of lines 354-364
Erc20Defaults == [name |-> "Unknown Token", symbol |-> "UNKNOWN", decimals |-> 18]

\* the call with outcome o made the view call the node fails
ViewRaised(o) ==
    /\ scen.viewFail \in 1..Len(PoolViews)
    /\ PoolViews[scen.viewFail] \in Range(o.rpc)

\* the call with outcome o looked up the metadata of token number ti
LookedUp(o, ti) ==
    <<"GET", Erc20Key(IF ti = 1 THEN scen.token0 ELSE scen.token1)>> \in Range(o.kv)

\* the call with outcome o asked a token for its three fields
AskedToken(o) == Range(Erc20Views) \subseteq Range(o.rpc)

\* the call with outcome o stored the metadata of the pool or tried to
BuiltMetadata(o) ==
    \E c \in Range(o.kv) : c[1] = "SET" /\ c[2] = PoolMetadataKey(scen.address)

\* a view call that fails ends the call with false as the failed metadata
\* stage, with no later view call and no token asked
C33_ViewFailure ==
    \A w \in Evaluations : \A n \in Calls(w) :
       LET o == det[w].log[n] IN
       ViewRaised(o) =>
          /\ o.result = FALSE /\ ~ o.raised /\ o.failed = "metadata"
          /\ o.rpc[Len(o.rpc)] = PoolViews[scen.viewFail]
          /\ ~ AskedToken(o)
          /\ ~ BuiltMetadata(o)

\* the token metadata in the store carries the default in exactly the fields
\* whose call raises; when nothing else deviates the verdict is true; and a
\* metadata stage that failed after a token was asked failed on a store
\* command
C33_FieldDefaults ==
    \A w \in Evaluations : \A n \in Calls(w) :
       LET o == det[w].log[n] IN
       /\ \A token \in {scen.token0, scen.token1} :
             Erc20Key(token) \in DOMAIN o.cache =>
                LET md == JsonLoads(o.cache[Erc20Key(token)].value) IN
                \A f \in Range(Erc20Views) :
                   (f \in scen.ercRaises) <=> (md[f] = Erc20Defaults[f])
       /\ scen = [GoodScenario EXCEPT !.ercRaises = scen.ercRaises] =>
             (o.result = TRUE /\ o.failed = "-" /\ ~ o.raised)
       /\ (o.failed = "metadata" /\ AskedToken(o)) =>
             scen.kvFail \cap {"set_erc", "set_meta", "get_erc_first",
                               "get_erc_second"} # {}

\* a lookup that returns None for one of the two tokens ends the call with
\* false after both lookups were made, and no pool metadata is built
C33_LookupFailure ==
    \A w \in Evaluations : \A n \in Calls(w) :
       LET o == det[w].log[n] IN
       (LookedUp(o, 1) /\ (\/ Erc20GetRaises(1) \/ Erc20GetRaises(2)
                           \/ "set_erc" \in scen.kvFail /\ AskedToken(o))) =>
          /\ o.result = FALSE /\ ~ o.raised /\ o.failed = "metadata"
          /\ LookedUp(o, 2)
          /\ ~ BuiltMetadata(o)

\* C33: in the metadata stage a failure of any of the five view calls gives
\* the verdict not-a-pool; a name, symbol or decimals call that fails is
\* replaced by "Unknown Token", "UNKNOWN" or 18 and does not by itself fail
\* the verdict; a token lookup that fails as a whole, for either token, fails
\* the verdict.
C33_MetadataFailures ==
    C33_ViewFailure /\ C33_FieldDefaults /\ C33_LookupFailure

\* the name call of the tokens raised and nothing else went wrong: the stored
\* metadata has the default name beside the token's own symbol and decimals,
\* and the verdict is true
C33_DefaultNameStillPool ==
    \E w \in Evaluations :
       /\ scen = [GoodScenario EXCEPT !.ercRaises = {"name"}]
       /\ Len(det[w].log) >= 1
       /\ det[w].log[1].result = TRUE
       /\ AskedToken(det[w].log[1])
       /\ JsonLoads(det[w].log[1].cache[Erc20Key(scen.token1)].value) =
             [name |-> "Unknown Token", symbol |-> "TKN", decimals |-> 6]

\* the lookup of the second token alone raised: the verdict is false
C33_SecondTokenLookupFailed ==
    \E w \in Evaluations :
       /\ scen.kvFail = {"get_erc_second"} /\ scen.viewFail = 0
       /\ Len(det[w].log) >= 1
       /\ LookedUp(det[w].log[1], 2)
       /\ det[w].log[1].result = FALSE

\* the tickSpacing call raised after four answered view calls
C33_LastViewFailed ==
    \E w \in Evaluations :
       /\ scen.viewFail = 5
       /\ Len(det[w].log) >= 1
       /\ ViewRaised(det[w].log[1])
       /\ det[w].log[1].result = FALSE

\* address, in lower case, of the log the task of slot t is at in state tk
GateAddress(t, tk) == Lower(chain[tasks[t].tx_hash].logs[tk.li].address)

\* a verdict once recorded in detected_pool_addresses stays as it is
C34_RecordedVerdictKept ==
    \A a \in DOMAIN detected_pool_addresses :
       /\ a \in DOMAIN detected_pool_addresses'
       /\ detected_pool_addresses'[a] = detected_pool_addresses[a]

\* a gate check that begins asks the detector only about an address without
\* a recorded verdict
C34_HitSkipsDetector ==
    \A t \in TaskIds :
       (/\ tasks'[t].pc = "ef_get"
        /\ tasks'[t].tx_hash = tasks[t].tx_hash
        /\ \/ tasks[t].pc \notin {"ef_get", "ef_eval"}
           \/ tasks[t].li # tasks'[t].li
           \/ tasks[t].fi # tasks'[t].fi) =>
          GateAddress(t, tasks'[t]) \notin DOMAIN detected_pool_addresses'

\* gate checks that begin with a verdict recorded never reach the detector
C34_MemoHitsSkipDetector == [][C34_HitSkipsDetector]_vars

\* C34: the gate memoizes per lower-case address for the life of the
\* process: a verdict recorded in detected_pool_addresses is what every later
\* gate check of the address returns, without the detector being invoked,
\* whatever the persistent cache holds.
C34_MemoizedForGood == [][C34_RecordedVerdictKept /\ C34_HitSkipsDetector]_vars

\* one call of process_receipt let a log of an address pass the gate and
\* rejected a later log of the same address
C34_PassedThenRejected ==
    \E t \in TaskIds :
       \E p \in tasks[t].passed, r \in tasks[t].rejected :
          /\ p[1] < r[1]
          /\ Lower(chain[tasks[t].tx_hash].logs[p[1]].address) =
             Lower(chain[tasks[t].tx_hash].logs[r[1]].address)

\* a recorded verdict is never replaced
C34_VerdictNeverReplaced == [][C34_RecordedVerdictKept]_vars

\* workers suspended in the lpush of line 88 for hash h
PendingLpush(h) == { t \in TaskIds : tasks[t].pc = "lpush" /\ tasks[t].tx_hash = h }

\* C35: the number of re-insertions of a hash equals retry_counts[hash], but
\* for the increments whose lpush is still awaited: no increment is left
\* without its lpush, so a failing hash below the cap is never lost without
\* having been re-inserted.
C35_CountEqualsReinsertions ==
    \A h \in Hashes :
       /\ retry_counts[h] = reinserts[h] + Cardinality(PendingLpush(h))
       /\ \A t \in TaskIds :
             (tasks[t].pc = "done" /\ tasks[t].tx_hash = h) => tasks[t].fate # "lost"

\* the lpush of a first failure raised: the count is 1, the hash was never
\* re-inserted and is neither queued nor in flight
C35_LostBelowTheCap ==
    \E h \in Hashes :
       /\ retry_counts[h] = 1 /\ reinserts[h] = 0
       /\ \A i \in 1..Len(queue) : queue[i] # h
       /\ \A t \in TaskIds : tasks[t].tx_hash = h => tasks[t].pc = "done"
       /\ \E t \in TaskIds : tasks[t].tx_hash = h /\ tasks[t].fate = "lost"

\* no count is reset or removed, whatever the step: a delivery that ends
\* well, an abandonment, a purge
C36_CountKept ==
    /\ DOMAIN retry_counts' = DOMAIN retry_counts
    /\ \A h \in Hashes : retry_counts'[h] >= retry_counts[h]

\* a failure of a hash that was re-inserted twice is handled by giving the
\* hash up: nothing enters the queue and the worker is done
C36_SpentBudgetAbandons ==
    \A t \in TaskIds :
       LET h == tasks[t].tx_hash IN
       (/\ h # NoHash
        /\ tasks'[t] # tasks[t]
        /\ failures'[h] = failures[h] + 1
        /\ reinserts[h] = MAX_RETRIES) =>
          /\ tasks'[t].pc = "done" /\ tasks'[t].fate = "abandoned"
          /\ queue' = queue
          /\ reinserts' = reinserts
          /\ retry_counts' = retry_counts

\* C36: the retry budget belongs to the hash for the life of the process:
\* retry_counts[hash] is never reset or removed, on success, abandonment or
\* purge, so after two re-insertions every later delivery of the hash whose
\* processing raises is abandoned without re-insertion.
C36_BudgetPerHash == [][C36_CountKept /\ C36_SpentBudgetAbandons]_vars

\* a hash pushed twice and re-inserted twice: one of its deliveries was
\* processed well, which left the count at 2, and one failed and was given up
C36_AbandonedAfterSuccess ==
    \E h \in Hashes : \E t, u \in TaskIds :
       /\ reinserts[h] = 2 /\ retry_counts[h] = 2 /\ failures[h] = 3
       /\ tasks[t].pc = "done" /\ tasks[t].tx_hash = h /\ tasks[t].fate = "hooks"
       /\ tasks[u].pc = "done" /\ tasks[u].tx_hash = h /\ tasks[u].fate = "abandoned"

\* the reconnect path ran to its end: a handle was closed, _init has
\* returned with a new one and the loop is consuming again
Reconnected == closed # {} /\ pool # 0 /\ redis = pool /\ supPc = "brpop"

\* after a reconnection the supervisor and the dumper's data manager hold a
\* handle that is not closed
C37_ReinitialisedHandlesOpen ==
    Reconnected => (redis \notin closed /\ dmRedis \notin closed)

\* a step after a reconnection by which a worker issues the detector's
\* lookup of a verdict issues it on a handle that is not closed
C37_DetectorLookupOnOpenHandle ==
    \A t \in TaskIds :
       (/\ Reconnected
        /\ tasks'[t].pc = "ef_get"
        /\ tasks'[t] # tasks[t]) => detRedis' \notin closed

\* what _init renews is open after every reconnection
C37_SupervisorAndDumperRenewed == [] C37_ReinitialisedHandlesOpen

\* C37: after a reconnection (the shared pool closed and re-initialized) no
\* component issues a KV operation on the closed handle: the supervisor, the
\* workers, the dumper's data manager and the event filter's pool detector
\* all operate on the new handle.
C37_NoOperationOnClosedHandle ==
    [] C37_ReinitialisedHandlesOpen /\ [][C37_DetectorLookupOnOpenHandle]_vars

\* the loop is consuming on the second handle while the detector, created
\* before the connection error, holds the first, which is closed
C37_DetectorKeepsClosedHandle ==
    /\ Reconnected
    /\ redis = 2 /\ dmRedis = 2
    /\ detRedis = 1 /\ 1 \in closed
    /\ \E t \in TaskIds : tasks[t].pc = "ef_get"

\* a get_pool call that returns in this step without having constructed:
\* _init of the supervisor, or the event filter of worker t
SupervisorObtains == supPc = "init" /\ supPc' = "init_rpc"
WorkerObtains(t) ==
    /\ tasks[t].pc = "hook" /\ tasks'[t] # tasks[t]
    /\ IsEventFilterTurn(t) /\ ~ NoLogs(chain[tasks[t].tx_hash])
    /\ tasks'[t].pc # "ef_ping"

\* a handle is handed out only when its PING has been answered: nobody
\* obtains it while its constructor holds the lock and awaits the PING
C38_NotBeforePing ==
    /\ SupervisorObtains => poolLock = 0
    /\ \A t \in TaskIds : WorkerObtains(t) => poolLock = 0

\* the supervisor's construction ends with a failed PING: the shared handle
\* is unset
C38_UnsetAfterFailedPing ==
    (supPc = "init_ping" /\ supPc' = "crashed") => pool' = 0

\* C38: get_pool never hands out a handle whose PING has not succeeded: no
\* concurrent caller obtains the handle between its creation and its
\* successful PING, and after a construction whose PING failed the shared
\* handle is unset, so that the next call constructs and verifies a new one.
C38_OnlyVerifiedHandles == [][C38_NotBeforePing /\ C38_UnsetAfterFailedPing]_vars

\* the first half alone
C38_NeverBeforePing == [][C38_NotBeforePing]_vars

\* the second half alone
C38_FailedPingUnsets == [][C38_UnsetAfterFailedPing]_vars

\* _init of the supervisor returned with the handle a worker constructed
\* and whose PING that worker still awaits
C38_HandedOutUnverified ==
    \E t \in TaskIds :
       /\ tasks[t].pc = "ef_ping" /\ poolLock = t
       /\ supPc = "init_rpc" /\ redis = pool /\ pool # 0

\* the PING of the supervisor's construction failed and the handle is still
\* the shared one
C38_FailedHandleStays ==
    /\ supPc = "crashed" /\ poolLock = 0
    /\ pool # 0 /\ pool \notin closed /\ redis # pool

\* hash h is in the queue / a worker of h has not ended
Queued(h) == \E i \in 1..Len(queue) : queue[i] = h
HashInFlight(h) == \E t \in TaskIds : tasks[t].tx_hash = h /\ InFlight(t)

\* the producer pushed h exactly once; the number of times h was popped
PushedOnce(h) == Cardinality({ i \in 1..Len(pushLog) : pushLog[i] = h }) = 1
Pops(h) == Cardinality({ t \in TaskIds : tasks[t].tx_hash = h })

\* the ways the claim lets a delivery end: handed to the hooks, skipped for a
\* null receipt, ended by a purge, given up at the cap, or re-inserted for a
\* later delivery
ListedFates == {"hooks", "null", "purged", "abandoned", "requeued"}

\* h is gone from the queue, no worker of h is running, and every delivery
\* of h ended in one of the listed ways
SettledAsListed(h) ==
    /\ ~ Queued(h) /\ ~ HashInFlight(h)
    /\ \A t \in TaskIds : tasks[t].tx_hash = h => tasks[t].fate \in ListedFates

\* every spawned worker ends
C39_WorkersTerminate ==
    \A t \in TaskIds : (tasks[t].pc \notin {"idle", "done"}) ~> (tasks[t].pc = "done")

\* a hash pushed once is popped at most three times
C39_AtMostThreePops ==
    [](\A h \in Hashes : PushedOnce(h) => Pops(h) <= MAX_RETRIES + 1)

\* while the supervisor consumes, a hash pushed once ends up neither queued
\* nor in flight
C39_EventuallyGone ==
    \A h \in Hashes :
       (PushedOnce(h) /\ (Queued(h) \/ HashInFlight(h)))
          ~> (supPc = "crashed" \/ (~ Queued(h) /\ ~ HashInFlight(h)))

\* C39: with every RPC and KV call returning or raising, every spawned
\* worker terminates, a hash pushed once is popped at most three times, and
\* (while the supervisor consumes) it is eventually neither queued nor in
\* flight, each of its deliveries having been handed to the hooks, skipped
\* for a null receipt, ended by a purge, re-inserted, or given up at the cap.
C39_EveryHashSettles ==
    /\ C39_WorkersTerminate
    /\ C39_AtMostThreePops
    /\ \A h \in Hashes :
          (PushedOnce(h) /\ (Queued(h) \/ HashInFlight(h)))
             ~> (supPc = "crashed" \/ SettledAsListed(h))

\* a hash popped three times: failed, re-inserted, failed, re-inserted,
\* failed and given up
C39_ThreePops ==
    \E h \in Hashes :
       /\ PushedOnce(h) /\ Pops(h) = 3
       /\ ~ Queued(h) /\ ~ HashInFlight(h)
       /\ \E t \in TaskIds : tasks[t].tx_hash = h /\ tasks[t].fate = "abandoned"

\* a hash popped once whose re-insertion raised: gone for good, with none of
\* the listed ends
C39_GoneUnlisted ==
    \E h \in Hashes :
       /\ PushedOnce(h) /\ Pops(h) = 1
       /\ ~ Queued(h) /\ ~ HashInFlight(h)
       /\ \E t \in TaskIds : tasks[t].tx_hash = h /\ tasks[t].fate = "lost"

====
